---- MODULE Spec2Model ----
(***************************************************************************)
(* Model of the pypaths path-computation engine: Topology, the path        *)
(* primitives (EdgePath(s), NodePath(s)) and the AllPaths, SpfPaths,       *)
(* LfaPaths and RlfaPaths engines, as wired by the PyPaths facade.         *)
(*                                                                         *)
(* Objects are modelled by value.  Where the code depends on object        *)
(* identity (list membership of NodePath objects, which define no          *)
(* __eq__), a NodePath carries an "oid" field that is unique within the    *)
(* collection the object is stored in, and an "owner" field naming the     *)
(* engine whose code constructed it: owner, oid and node sequence together *)
(* tell one NodePath object from every other.                              *)
(***************************************************************************)
EXTENDS Integers, Sequences, FiniteSets, TLC

\* ---- bounds of the model ----
NumNodes == 4
MaxLinks == 5
MaxWeight == 2
MaxAppends == 4
MaxLoadLinks == 2

\* ---- program constants (pypaths/settings.py) ----
\* sys.maxsize in the code; the largest integer of the model checker here.
HEIGHTEST_WEIGHT == 2147483647

Node == 1..NumNodes

Range(s) == {s[i] : i \in 1..Len(s)}

Pop(s) == SubSeq(s, 1, Len(s) - 1)

InsertAt(s, i, x) == SubSeq(s, 1, i - 1) \o <<x>> \o SubSeq(s, i, Len(s))

RECURSIVE SumSeq(_)
SumSeq(s) == IF s = <<>> THEN 0 ELSE s[1] + SumSeq(Tail(s))

Min(a, b) == IF a < b THEN a ELSE b

\* ------------------------------------------------------------------------
\* Edge and Node (pypaths/node.py), Topology (pypaths/topology.py)
\* ------------------------------------------------------------------------

\* A topology document (the dict Topology.from_dict is given) is a record
\* [nodes, links]: nodes a sequence of node entries, each a record with the
\* keys the entry has ([id |-> name] in an input document), links a sequence
\* of link entries, <<source, target, weight>> or, for an entry with no
\* "weight" key, <<source, target>>.  Names are the strings of the JSON
\* document, written as numbers here; str() leaves them as they are.

\* Edge.__init__: a directed half-link; eid stands for the object identity.
Edge(local, remote, weight, eid) ==
    [local |-> local, remote |-> remote, weight |-> weight, eid |-> eid]

\* Edge.copy followed by Edge.swap_nodes, as done by Topology.from_dict.
SwappedCopy(e) == Edge(e.remote, e.local, e.weight, 0 - e.eid)

\* Topology.__init__: no nodes.  nodes is the key order of the nodes dict,
\* oid the identity of the Node object stored under a name (0: none),
\* neighbours and edges the lists of the stored Node objects, edge_keys the
\* key order of a node's edges dict; raised names the exception that ended
\* the construction, "none" when it returned.
NewTopology ==
    [nodes      |-> <<>>,
     oid        |-> [n \in Node |-> 0],
     neighbours |-> [n \in Node |-> <<>>],
     edges      |-> [n \in Node |-> [m \in Node |-> <<>>]],
     edge_keys  |-> [n \in Node |-> <<>>],
     raised     |-> "none"]

\* Node.get_neighbours
get_neighbours(topo, n) == topo.neighbours[n]

\* Node.edges_toward_node
edges_toward_node(topo, n, m) == topo.edges[n][m]

\* Topology.get_nodes_list
get_nodes_list(topo) == topo.nodes

\* Topology.add_node of the Node object oid with the given name, a new node
\* having edges={} and neighbours=[]: "node not in self.get_nodes_list()"
\* compares objects, so an object that is not stored is written to
\* self.nodes[name], over a stored node of that name if there is one.
add_node(topo, name, oid) ==
    IF \E n \in Range(topo.nodes) : topo.oid[n] = oid THEN topo
    ELSE [topo EXCEPT
             !.nodes = IF name \in Range(@) THEN @ ELSE Append(@, name),
             !.oid[name] = oid,
             !.neighbours[name] = <<>>,
             !.edges[name] = [m \in Node |-> <<>>],
             !.edge_keys[name] = <<>>]

\* The next unused object identity of a topology.
FreshOid(topo) ==
    1 + Cardinality({n \in Node : topo.oid[n] # 0})
      + Cardinality({n \in Node : topo.oid[n] > NumNodes})

\* Node.from_dict followed by Topology.add_node, for the entry at position i
\* of the "nodes" array: node["id"] raises KeyError for an entry with no id.
RECURSIVE LoadNodes(_, _, _)
LoadNodes(topo, nodes, i) ==
    IF i > Len(nodes) \/ topo.raised # "none" THEN topo
    ELSE IF "id" \notin DOMAIN nodes[i]
    THEN [topo EXCEPT !.raised = "KeyError"]
    ELSE LoadNodes(add_node(topo, nodes[i].id, i), nodes, i + 1)

\* Node.add_neighbour
add_neighbour(topo, n, m) ==
    IF m \notin Range(topo.neighbours[n]) /\ m # n
    THEN [topo EXCEPT !.neighbours[n] = Append(@, m)]
    ELSE topo

\* Node.add_edge
add_edge(topo, e) ==
    LET t1 == IF topo.edges[e.local][e.remote] = <<>>
              THEN [add_neighbour(add_neighbour(topo, e.local, e.remote),
                                  e.remote, e.local)
                       EXCEPT !.edge_keys[e.local] = Append(@, e.remote)]
              ELSE topo
    IN IF \E i \in 1..Len(t1.edges[e.local][e.remote]) :
              t1.edges[e.local][e.remote][i].eid = e.eid
       THEN t1
       ELSE [t1 EXCEPT !.edges[e.local][e.remote] = Append(@, e)]

\* Edge.from_dict: nodes[edge["source"]] and nodes[edge["target"]] raise
\* KeyError for a name that is no key of the nodes dict; an entry with no
\* "weight" key gives weight=None, for which Edge.__init__ raises ValueError.
\* The result names the exception, or is "none" with the Edge.
edge_from_dict(topo, link, eid) ==
    IF link[1] \notin Range(topo.nodes) \/ link[2] \notin Range(topo.nodes)
    THEN [raised |-> "KeyError"]
    ELSE IF Len(link) < 3 THEN [raised |-> "ValueError"]
    ELSE [raised |-> "none", edge |-> Edge(link[1], link[2], link[3], eid)]

\* Topology.from_dict, the edge loop.  The two tests of the loop body only
\* log, and no edge that Edge.from_dict returns can satisfy them.
RECURSIVE LoadEdges(_, _, _)
LoadEdges(topo, links, i) ==
    IF i > Len(links) \/ topo.raised # "none" THEN topo
    ELSE LET e == edge_from_dict(topo, links[i], i)
         IN IF e.raised # "none"
            THEN [topo EXCEPT !.raised = e.raised]
            ELSE LoadEdges(add_edge(topo, e.edge), links, i + 1)

\* Topology.from_dict, the innermost loop that copies the neighbour's edges.
RECURSIVE MirrorEdges(_, _, _)
MirrorEdges(topo, es, i) ==
    IF i > Len(es) THEN topo
    ELSE MirrorEdges(add_edge(topo, SwappedCopy(es[i])), es, i + 1)

\* Topology.from_dict, the loop over the neighbours of one node.
RECURSIVE MirrorNeighbours(_, _, _, _)
MirrorNeighbours(topo, n, neis, j) ==
    IF j > Len(neis) THEN topo
    ELSE MirrorNeighbours(
             IF edges_toward_node(topo, n, neis[j]) = <<>>
             THEN MirrorEdges(topo, edges_toward_node(topo, neis[j], n), 1)
             ELSE topo,
             n, neis, j + 1)

\* Topology.from_dict, the loop over the nodes that adds the missing twins.
RECURSIVE MirrorNodes(_, _)
MirrorNodes(topo, i) ==
    IF i > Len(topo.nodes) \/ topo.raised # "none" THEN topo
    ELSE MirrorNodes(MirrorNeighbours(topo, topo.nodes[i],
                                      get_neighbours(topo, topo.nodes[i]), 1),
                     i + 1)

\* Topology.from_dict
from_dict(topo_data) ==
    MirrorNodes(LoadEdges(LoadNodes(NewTopology, topo_data.nodes, 1),
                          topo_data.links, 1),
                1)

\* Edge.to_dict: the "weight" key is written only for a weight that is not 0.
edge_to_dict(e) ==
    IF e.weight # 0 THEN <<e.local, e.remote, e.weight>>
    ELSE <<e.local, e.remote>>

\* Node.edges_to_list: the edges of a node, by key order of its edges dict.
RECURSIVE edges_to_list(_, _, _)
edges_to_list(topo, n, k) ==
    IF k > Len(topo.edge_keys[n]) THEN <<>>
    ELSE LET es == topo.edges[n][topo.edge_keys[n][k]]
         IN [i \in 1..Len(es) |-> edge_to_dict(es[i])]
            \o edges_to_list(topo, n, k + 1)

\* Node.to_dict(inc_edges=False): the keys edges, name and node_side; node
\* SIDs are not part of the model, every node_sid is None.
node_to_dict(n) == [edges |-> <<>>, name |-> n, node_side |-> "None"]

\* Topology.to_dict, from the node at position i on.
RECURSIVE to_dict(_, _)
to_dict(topo, i) ==
    IF i > Len(topo.nodes) THEN [nodes |-> <<>>, links |-> <<>>]
    ELSE LET rest == to_dict(topo, i + 1)
         IN [nodes |-> <<node_to_dict(topo.nodes[i])>> \o rest.nodes,
             links |-> edges_to_list(topo, topo.nodes[i], 1) \o rest.links]

\* ---- the input documents the model loads ----
Weights == 1..MaxWeight

LinkOptions == {<<u, v, w>> : u \in Node, v \in Node, w \in Weights}

LinkRank(l) == (l[1] * (NumNodes + 1) + l[2]) * (MaxWeight + 1) + l[3]

\* The ascending link lists of at most k links.
RECURSIVE LinkListsUpTo(_)
LinkListsUpTo(k) ==
    IF k = 0 THEN {<<>>}
    ELSE LET prev == LinkListsUpTo(k - 1)
         IN prev \cup UNION {
                {Append(s, l) : l \in {o \in LinkOptions :
                    /\ o[1] < o[2]
                    /\ Len(s) > 0 => LinkRank(s[Len(s)]) < LinkRank(o)}} :
                s \in {q \in prev : Len(q) = k - 1}}

\* The "links" arrays: each link is listed once, source < target, links in
\* ascending order (parallel links differ in weight), every weight positive;
\* the nodes that have links are numbered before those that have none.
LinkLists ==
    {s \in LinkListsUpTo(MaxLinks) :
        \A i \in 1..Len(s) : \A e \in {1, 2} : \A m \in 1..s[i][e] :
            \E j \in 1..Len(s) : m \in {s[j][1], s[j][2]}}

\* The "nodes" array: the order of every loop over the nodes.
NodeList == [i \in 1..NumNodes |-> [id |-> i]]

\* ------------------------------------------------------------------------
\* Path primitives (pypaths/path.py)
\* ------------------------------------------------------------------------

\* BasePath.append: the item is added unless it is already on the path.
BasePathAppend(path, item) ==
    IF item \in Range(path) THEN path ELSE Append(path, item)

\* EdgePath.get_weight
EdgePathWeight(ep) == SumSeq([i \in 1..Len(ep) |-> ep[i].weight])

\* The index of a plain list append, whatever the weights.
InsertIndexAtEnd(ws, w, i) == Len(ws) + 1

\* The index EdgePaths.append / NodePaths.append insert at: the first stored
\* path whose weight is not below the new weight; Len + 1 when there is none.
RECURSIVE InsertIndex(_, _, _)
InsertIndex(ws, w, i) ==
    IF i > Len(ws) THEN i
    ELSE IF w <= ws[i] THEN i
    ELSE InsertIndex(ws, w, i + 1)

\* EdgePaths.append
EdgePathsAppend(paths, path) ==
    InsertAt(paths,
             InsertIndex([i \in 1..Len(paths) |-> EdgePathWeight(paths[i])],
                         EdgePathWeight(path), 1),
             path)

\* EdgePaths.expand_node_path: a record of the two mutated arguments and
\* whether the call returned None.
RECURSIVE expand_node_path(_, _, _, _)
RECURSIVE ExpandLoop(_, _, _, _, _, _)

\* The expansion without the edge_path.pop() that follows the loop.
expand_node_path_no_pop(topo, all_edge_paths, edge_path, node_path) ==
    IF Len(node_path) < 2
    THEN [all |-> all_edge_paths, ep |-> edge_path, none |-> TRUE]
    ELSE LET cands == SelectSeq(
                 edges_toward_node(topo, node_path[1], node_path[2]),
                 LAMBDA e : e \notin Range(edge_path))
             r == ExpandLoop(topo, all_edge_paths, edge_path, node_path,
                             cands, 1)
         IN [all |-> r.all, ep |-> r.ep, none |-> FALSE]

expand_node_path(topo, all_edge_paths, edge_path, node_path) ==
    IF Len(node_path) < 2
    THEN [all |-> all_edge_paths, ep |-> edge_path, none |-> TRUE]
    ELSE LET cands == SelectSeq(
                 edges_toward_node(topo, node_path[1], node_path[2]),
                 LAMBDA e : e \notin Range(edge_path))
             r == ExpandLoop(topo, all_edge_paths, edge_path, node_path,
                             cands, 1)
         IN [all  |-> r.all,
             ep   |-> IF Len(r.ep) > 0 THEN Pop(r.ep) ELSE r.ep,
             none |-> FALSE]

ExpandLoop(topo, all_edge_paths, edge_path, node_path, cands, i) ==
    IF i > Len(cands) THEN [all |-> all_edge_paths, ep |-> edge_path]
    ELSE LET r == expand_node_path(topo, all_edge_paths,
                                   BasePathAppend(edge_path, cands[i]),
                                   Tail(node_path))
         IN IF r.none \/ Len(r.all) = 0
            THEN ExpandLoop(topo, EdgePathsAppend(r.all, r.ep), Pop(r.ep),
                            node_path, cands, i + 1)
            ELSE ExpandLoop(topo, r.all, r.ep, node_path, cands, i + 1)

\* EdgePaths.from_node_path
from_node_path(topo, path) ==
    IF Len(path) > 1
    THEN expand_node_path(topo, <<>>, <<>>, path).all
    ELSE <<>>

\* EdgePaths.get_lowest_path_weight
EdgePathsLowestWeight(paths) ==
    IF paths # <<>> THEN EdgePathWeight(paths[1]) ELSE 0

\* NodePath.__init__ with expand_edges=True.  edge_paths is kept through
\* its lowest weight, the only part of it the engines read.  The owner is
\* AllPaths unless the constructing engine says otherwise.
NodePath(topo, path, oid) ==
    [path            |-> path,
     owner           |-> "all_paths",
     nested          |-> FALSE,
     link_protecting |-> FALSE,
     down_protecting |-> FALSE,
     node_protecting |-> FALSE,
     weight          |-> EdgePathsLowestWeight(from_node_path(topo, path)),
     oid             |-> oid]

\* BasePath.__add__ on two NodePaths: NodePath(path=[self.path + other.path]),
\* a path of ONE item, that item being the concatenated list.  Its edge
\* expansion sees a path of length 1 and is empty, so its weight is 0.
NodePathAdd(a, b, oid) ==
    [path            |-> a.path \o b.path,
     owner           |-> "rlfa_paths",
     nested          |-> TRUE,
     link_protecting |-> FALSE,
     down_protecting |-> FALSE,
     node_protecting |-> FALSE,
     weight          |-> 0,
     oid             |-> oid]

\* NodePath.get_source / get_target: path[0] and path[-1], which for the
\* result of __add__ is the list itself.
NodePathSource(p) ==
    IF p.nested THEN <<"list", p.path>> ELSE <<"node", p.path[1]>>

NodePathTarget(p) ==
    IF p.nested THEN <<"list", p.path>> ELSE <<"node", p.path[Len(p.path)]>>

\* NodePath.get_weight / get_lowest_path_weight
NodePathWeight(p) == p.weight

\* The validation that compares the source only.
validate_source_only(paths, p) ==
    \/ paths = <<>>
    \/ NodePathSource(p) = NodePathSource(paths[1])

\* NodePaths.validate_endpoints: TRUE when it does not raise.
validate_endpoints(paths, p) ==
    \/ paths = <<>>
    \/ /\ NodePathSource(p) = NodePathSource(paths[1])
       /\ NodePathTarget(p) = NodePathTarget(paths[1])

\* The insertion without the "path not in self.paths" test.
NodePathsInsertAlways(paths, p) ==
    InsertAt(paths,
             InsertIndex([i \in 1..Len(paths) |-> NodePathWeight(paths[i])],
                         NodePathWeight(p), 1),
             p)

\* NodePaths.append after validation: skipped when the same object is
\* already stored, else inserted in weight order.
NodePathsInsert(paths, p) ==
    IF \E i \in 1..Len(paths) : paths[i].oid = p.oid
    THEN paths
    ELSE InsertAt(paths,
                  InsertIndex([i \in 1..Len(paths) |-> NodePathWeight(paths[i])],
                              NodePathWeight(p), 1),
                  p)

\* A NodePaths under construction: raised records that an append raised
\* ValueError, after which nothing else of the computation runs.
NoPaths == [paths |-> <<>>, raised |-> FALSE]

\* NodePaths.append
NodePathsAppend(r, p) ==
    IF r.raised THEN r
    ELSE IF ~validate_endpoints(r.paths, p) THEN [r EXCEPT !.raised = TRUE]
    ELSE [r EXCEPT !.paths = NodePathsInsert(@, p)]

\* ------------------------------------------------------------------------
\* AllPaths (pypaths/all_paths.py)
\* ------------------------------------------------------------------------

\* AllPaths.calculate_nodepaths: the recursive depth first search.  The
\* result holds the accrued NodePaths and current_path as the call leaves it.
RECURSIVE calculate_nodepaths(_, _, _, _, _)
RECURSIVE DfsLoop(_, _, _, _, _, _, _)
calculate_nodepaths(topo, all_paths, current_path, source, target) ==
    LET cur0 == IF Len(current_path) = 0 THEN <<source>> ELSE current_path
        r == DfsLoop(topo, all_paths, cur0, source, target,
                     get_neighbours(topo, cur0[Len(cur0)]), 1)
    IN [all |-> r.all,
        cur |-> IF Len(r.cur) > 1 THEN Pop(r.cur) ELSE r.cur]

\* DfsLoop without the pop that follows the append of a completed path.
RECURSIVE DfsLoopNoPop(_, _, _, _, _, _, _)
DfsLoopNoPop(topo, all_paths, current_path, source, target, neis, i) ==
    IF i > Len(neis) THEN [all |-> all_paths, cur |-> current_path]
    ELSE IF neis[i] \in Range(current_path)
    THEN DfsLoopNoPop(topo, all_paths, current_path, source, target, neis,
                      i + 1)
    ELSE LET cur1 == BasePathAppend(current_path, neis[i])
         IN IF neis[i] = target
            THEN DfsLoopNoPop(topo,
                              NodePathsAppend(all_paths,
                                  NodePath(topo, cur1, Len(all_paths.paths) + 1)),
                              cur1, source, target, neis, i + 1)
            ELSE LET r == calculate_nodepaths(topo, all_paths, cur1,
                                              source, target)
                 IN DfsLoopNoPop(topo, r.all, r.cur, source, target, neis,
                                 i + 1)

\* The loop over the neighbours of the last node of current_path.
DfsLoop(topo, all_paths, current_path, source, target, neis, i) ==
    IF i > Len(neis) THEN [all |-> all_paths, cur |-> current_path]
    ELSE IF neis[i] \in Range(current_path)
    THEN DfsLoop(topo, all_paths, current_path, source, target, neis, i + 1)
    ELSE LET cur1 == BasePathAppend(current_path, neis[i])
         IN IF neis[i] = target
            THEN DfsLoop(topo,
                         NodePathsAppend(all_paths,
                             NodePath(topo, cur1, Len(all_paths.paths) + 1)),
                         Pop(cur1), source, target, neis, i + 1)
            ELSE LET r == calculate_nodepaths(topo, all_paths, cur1,
                                              source, target)
                 IN DfsLoop(topo, r.all, r.cur, source, target, neis, i + 1)

\* AllPaths.get_paths_between on a paths dictionary keyed by <<source, target>>.
get_paths_between(paths, source, target) ==
    IF <<source, target>> \in DOMAIN paths THEN paths[<<source, target>>]
    ELSE <<>>

\* The pairs of the double loop of every calculate_paths, in loop order.
PairSeq(topo) ==
    LET n == Len(topo.nodes)
        all == [k \in 1..(n * n) |->
                   <<topo.nodes[((k - 1) \div n) + 1],
                     topo.nodes[((k - 1) % n) + 1]>>]
    IN SelectSeq(all, LAMBDA p : p[1] # p[2])

\* ------------------------------------------------------------------------
\* Queries on a NodePaths (pypaths/path.py)
\* ------------------------------------------------------------------------

\* NodePaths.get_lowest_path_weight
RECURSIVE LowestFrom(_, _, _)
LowestFrom(paths, i, lowest) ==
    IF i > Len(paths) THEN lowest
    ELSE LowestFrom(paths, i + 1,
                    IF NodePathWeight(paths[i]) < lowest
                    THEN NodePathWeight(paths[i]) ELSE lowest)

get_lowest_path_weight(paths) ==
    IF paths = <<>> THEN 0 ELSE LowestFrom(paths, 1, HEIGHTEST_WEIGHT)

\* NodePaths.get_lowest_weighted_paths: the loop, carrying lowest_weight and
\* the NodePaths collected so far.
RECURSIVE LowestWeightedFrom(_, _, _, _)
\* The loop without its elif branch: a path tied at the lowest weight is
\* not collected.
RECURSIVE LowestWeightedFromNoTies(_, _, _, _)
LowestWeightedFromNoTies(paths, i, lowest, acc) ==
    IF i > Len(paths) THEN acc
    ELSE IF NodePathWeight(paths[i]) < lowest
    THEN LowestWeightedFromNoTies(paths, i + 1, NodePathWeight(paths[i]),
                                  [acc EXCEPT !.paths = <<paths[i]>>])
    ELSE LowestWeightedFromNoTies(paths, i + 1, lowest, acc)

LowestWeightedFrom(paths, i, lowest, acc) ==
    IF i > Len(paths) THEN acc
    ELSE IF NodePathWeight(paths[i]) < lowest
    THEN LowestWeightedFrom(paths, i + 1, NodePathWeight(paths[i]),
                            [acc EXCEPT !.paths = <<paths[i]>>])
    ELSE IF NodePathWeight(paths[i]) = lowest
    THEN LowestWeightedFrom(paths, i + 1, lowest,
                            NodePathsAppend(acc, paths[i]))
    ELSE LowestWeightedFrom(paths, i + 1, lowest, acc)

get_lowest_weighted_paths(paths) ==
    LowestWeightedFrom(paths, 1, HEIGHTEST_WEIGHT, NoPaths)

\* NodePaths.get_first_hop_nodes
get_first_hop_nodes(paths) ==
    LET best == get_lowest_weighted_paths(paths).paths
    IN [i \in 1..Len(best) |-> best[i].path[2]]

\* BasePath.__contains__ on a NodePath
OnPath(n, p) == ~p.nested /\ n \in Range(p.path)

\* ------------------------------------------------------------------------
\* SpfPaths (pypaths/spf_paths.py)
\* ------------------------------------------------------------------------

\* The body of the double loop of SpfPaths.calculate_paths.
SpfCalculate(all, source, target) ==
    get_lowest_weighted_paths(get_paths_between(all, source, target))

\* SpfPaths.get_path_cost_between raises when the pair has no entry.
PathCostRaises(spf, source, target) == <<source, target>> \notin DOMAIN spf

\* SpfPaths.get_path_cost_between when it returns.
get_path_cost_between(spf, source, target) ==
    get_lowest_path_weight(get_paths_between(spf, source, target))

\* ------------------------------------------------------------------------
\* LfaPaths (pypaths/lfa_paths.py)
\* ------------------------------------------------------------------------

\* A flag setter called on an object that may already be stored in the
\* collection: the stored reference shows the new flag.
Aliased(r, obj) ==
    [r EXCEPT !.paths = [i \in 1..Len(@) |->
                            IF @[i].oid = obj.oid THEN obj ELSE @[i]]]

\* The overlap test that looks at one first hop only.
LfaOverlapOneHop(first_hops, nei_target_paths) ==
    \E j \in 1..Len(nei_target_paths) :
        OnPath(first_hops[Len(first_hops)], nei_target_paths[j])

\* The overlap list of LfaPaths.calculate_nodepaths is non-empty.
LfaOverlap(first_hops, nei_target_paths) ==
    \E i \in 1..Len(first_hops) : \E j \in 1..Len(nei_target_paths) :
        OnPath(first_hops[i], nei_target_paths[j])

\* The loop body that flags and appends the SPF path object of the neighbour
\* itself in place of a new NodePath.
LfaCandidateInPlace(topo, lfa, source, nei_target_path, is_link, is_down, is_node, overlap) ==
    LET o0 == nei_target_path
        o1 == IF is_link THEN [o0 EXCEPT !.link_protecting = TRUE] ELSE o0
        l1 == IF is_link THEN NodePathsAppend(Aliased(lfa, o1), o1) ELSE lfa
        o2 == IF is_down THEN [o1 EXCEPT !.down_protecting = TRUE] ELSE o1
        l2 == IF is_down THEN NodePathsAppend(Aliased(l1, o2), o2) ELSE l1
        o3 == IF is_node /\ ~overlap
              THEN [o2 EXCEPT !.node_protecting = TRUE] ELSE o2
        l3 == IF is_node /\ ~overlap
              THEN NodePathsAppend(Aliased(l2, o3), o3) ELSE l2
    IN l3

\* LfaPaths.calculate_nodepaths, the body of the loop over nei_target_paths:
\* one NodePath object, flagged and appended once per satisfied criterion.
LfaCandidate(topo, lfa, source, nei_target_path, is_link, is_down, is_node, overlap) ==
    LET o0 == [NodePath(topo, <<source>> \o nei_target_path.path,
                        Len(lfa.paths) + 1) EXCEPT !.owner = "lfa_paths"]
        o1 == IF is_link THEN [o0 EXCEPT !.link_protecting = TRUE] ELSE o0
        l1 == IF is_link THEN NodePathsAppend(Aliased(lfa, o1), o1) ELSE lfa
        o2 == IF is_down THEN [o1 EXCEPT !.down_protecting = TRUE] ELSE o1
        l2 == IF is_down THEN NodePathsAppend(Aliased(l1, o2), o2) ELSE l1
        o3 == IF is_node /\ ~overlap
              THEN [o2 EXCEPT !.node_protecting = TRUE] ELSE o2
        l3 == IF is_node /\ ~overlap
              THEN NodePathsAppend(Aliased(l2, o3), o3) ELSE l2
    IN l3

RECURSIVE LfaCandidates(_, _, _, _, _, _, _, _, _)
LfaCandidates(topo, lfa, source, nei_target_paths, j, is_link, is_down, is_node, overlap) ==
    IF j > Len(nei_target_paths) THEN lfa
    ELSE LfaCandidates(topo,
                       LfaCandidate(topo, lfa, source, nei_target_paths[j],
                                    is_link, is_down, is_node, overlap),
                       source, nei_target_paths, j + 1, is_link, is_down,
                       is_node, overlap)

\* The neighbour test without the first hop check.
LfaSkipTargetOnly(first_hops, nei, target) == nei = target

\* LfaPaths.calculate_nodepaths: the two tests that skip a neighbour before
\* any cost is read.
LfaSkip(first_hops, nei, target) ==
    nei = target \/ nei \in Range(first_hops)

\* RFC 5286 inequality 1, as coded.
link_prot(nei_target_cost, nei_source_cost, source_target_cost) ==
    nei_target_cost < nei_source_cost + source_target_cost

\* Inequality 2 with <= for <.
down_prot_or_equal(nei_target_cost, source_target_cost) ==
    nei_target_cost <= source_target_cost

\* RFC 5286 inequality 2, as coded.
down_prot(nei_target_cost, source_target_cost) ==
    nei_target_cost < source_target_cost

\* RFC 5286 inequality 3, as coded.
node_prot(nei_target_cost, nei_nh_cost, nh_target_cost) ==
    nei_target_cost < nei_nh_cost + nh_target_cost

\* LfaPaths.calculate_nodepaths, the body of the loop over the neighbours.
LfaNeighbour(topo, spf, lfa, source, target, nei) ==
    LET source_target_paths == get_paths_between(spf, source, target)
        first_hops == get_first_hop_nodes(source_target_paths)
        nh == source_target_paths[1].path[2]
        nei_target_cost ==
            get_lowest_path_weight(get_paths_between(spf, nei, target))
        nei_source_cost ==
            get_lowest_path_weight(get_paths_between(spf, nei, source))
        source_target_cost ==
            get_lowest_path_weight(get_paths_between(spf, source, target))
        nei_nh_cost ==
            get_lowest_path_weight(get_paths_between(spf, nei, nh))
        nh_target_cost ==
            get_lowest_path_weight(get_paths_between(spf, nh, target))
        nei_target_paths == get_paths_between(spf, nei, target)
    IN IF LfaSkip(first_hops, nei, target) THEN lfa
       ELSE IF \/ nei_target_cost = 0
               \/ nei_source_cost = 0
               \/ source_target_cost = 0
               \/ nei_nh_cost = 0
               \/ nh_target_cost = 0
       THEN lfa
       ELSE LfaCandidates(topo, lfa, source, nei_target_paths, 1,
                link_prot(nei_target_cost, nei_source_cost, source_target_cost),
                down_prot(nei_target_cost, source_target_cost),
                node_prot(nei_target_cost, nei_nh_cost, nh_target_cost),
                LfaOverlap(first_hops, nei_target_paths))

RECURSIVE LfaNeighbours(_, _, _, _, _, _, _)
LfaNeighbours(topo, spf, lfa, source, target, neis, i) ==
    IF i > Len(neis) THEN lfa
    ELSE LfaNeighbours(topo, spf,
                       LfaNeighbour(topo, spf, lfa, source, target, neis[i]),
                       source, target, neis, i + 1)

\* LfaPaths.calculate_nodepaths
LfaCalculateNodepaths(topo, spf, source, target) ==
    IF get_paths_between(spf, source, target) = <<>> THEN NoPaths
    ELSE LfaNeighbours(topo, spf, NoPaths, source, target,
                       get_neighbours(topo, source), 1)

\* ------------------------------------------------------------------------
\* RlfaPaths (pypaths/rlfa_paths.py)
\*
\* Every get_path_cost_between call of this engine names two different
\* nodes, so once SpfPaths is complete none of them raises.
\* ------------------------------------------------------------------------

\* Some path of the NodePaths passes through node n.
OnSomePath(n, paths) == \E i \in 1..Len(paths) : OnPath(n, paths[i])

RECURSIVE MinSeq(_)
MinSeq(s) == IF Len(s) = 1 THEN s[1] ELSE Min(s[1], MinSeq(Tail(s)))

\* gen_q_space with <= for <.
gen_q_space_or_equal(topo, spf, source, target) ==
    SelectSeq(get_nodes_list(topo), LAMBDA node :
        /\ node # source
        /\ node # target
        /\ get_path_cost_between(spf, node, target)
             <= get_path_cost_between(spf, node, source)
                + get_path_cost_between(spf, source, target))

\* RlfaPaths.gen_q_space
gen_q_space(topo, spf, source, target) ==
    SelectSeq(get_nodes_list(topo), LAMBDA node :
        /\ node # source
        /\ node # target
        /\ get_path_cost_between(spf, node, target)
             < get_path_cost_between(spf, node, source)
               + get_path_cost_between(spf, source, target))

\* RlfaPaths.gen_p_space, first loop: the keys of root_pnode_costs, in order.
PspaceCandidates(topo, spf, root, source, target) ==
    SelectSeq(get_nodes_list(topo), LAMBDA pnode :
        /\ pnode \notin {root, source, target}
        /\ get_paths_between(spf, pnode, target) # <<>>
        /\ ~OnSomePath(source, get_paths_between(spf, pnode, target)))

\* RlfaPaths.gen_p_space, first loop: fh_pnode_costs[pnode].
FhPnodeCosts(spf, fh_nodes, pnode) ==
    LET fhs == SelectSeq(fh_nodes, LAMBDA fh : fh # pnode)
    IN [i \in 1..Len(fhs) |-> get_path_cost_between(spf, fhs[i], pnode)]

\* RlfaPaths.gen_p_space, second loop: pnode is not skipped for having the
\* target on a best path from source.
PspaceTested(spf, source, target, pnode) ==
    ~OnSomePath(target, get_paths_between(spf, source, pnode))

\* RlfaPaths.gen_p_space, the cost test of the second loop.
PspaceCostTest(spf, root, target, fh_nodes, pnode) ==
    get_path_cost_between(spf, root, pnode)
      < get_lowest_path_weight(get_paths_between(spf, root, target))
        + MinSeq(FhPnodeCosts(spf, fh_nodes, pnode))

\* gen_p_space without the early return for a root that has no path to the
\* target.
gen_p_space_no_return(topo, spf, root, source, target) ==
    LET root_target_paths == get_paths_between(spf, root, target)
        fh_nodes == get_first_hop_nodes(root_target_paths)
        cands == PspaceCandidates(topo, spf, root, source, target)
        tested == SelectSeq(cands, LAMBDA pnode :
                      PspaceTested(spf, source, target, pnode))
    IN IF \E i \in 1..Len(tested) :
              FhPnodeCosts(spf, fh_nodes, tested[i]) = <<>>
       THEN [nodes |-> <<>>, raised |-> TRUE]
       ELSE [nodes  |-> SelectSeq(tested, LAMBDA pnode :
                           PspaceCostTest(spf, root, target, fh_nodes, pnode)),
             raised |-> FALSE]

\* RlfaPaths.gen_p_space: the P-space list, or raised when min() is given
\* an empty fh_pnode_costs list (ValueError).
gen_p_space(topo, spf, root, source, target) ==
    LET root_target_paths == get_paths_between(spf, root, target)
        fh_nodes == get_first_hop_nodes(root_target_paths)
        cands == PspaceCandidates(topo, spf, root, source, target)
        tested == SelectSeq(cands, LAMBDA pnode :
                      PspaceTested(spf, source, target, pnode))
    IN IF root_target_paths = <<>> THEN [nodes |-> <<>>, raised |-> FALSE]
       ELSE IF \E i \in 1..Len(tested) :
                   FhPnodeCosts(spf, fh_nodes, tested[i]) = <<>>
       THEN [nodes |-> <<>>, raised |-> TRUE]
       ELSE [nodes  |-> SelectSeq(tested, LAMBDA pnode :
                           PspaceCostTest(spf, root, target, fh_nodes, pnode)),
             raised |-> FALSE]

\* RlfaPaths.gen_ep_space before list(ep_space): the set, or raised when a
\* gen_p_space call raised.
gen_ep_space(topo, spf, source, target) ==
    LET neis == {n \in Range(get_neighbours(topo, source)) : n # target}
        p_space == [nei \in neis |->
                       gen_p_space(topo, spf, nei, source, target)]
    IN [nodes |->
           {pnode \in Node : \E nei \in neis :
               /\ pnode \in Range(p_space[nei].nodes)
               /\ pnode # source
               /\ get_path_cost_between(spf, nei, pnode)
                    < get_path_cost_between(spf, nei, source)
                      + get_path_cost_between(spf, source, target)
                      + get_path_cost_between(spf, target, pnode)},
        raised |-> \E nei \in neis : p_space[nei].raised]

\* list(ep_space): a set of Node objects iterates in an order the program
\* does not control.
ListsOfSet(S) ==
    {l \in [1..Cardinality(S) -> S] : \A x \in S : \E i \in DOMAIN l : l[i] = x}

\* RlfaPaths.gen_pq_nodes
gen_pq_nodes(ep_space, q_space) ==
    SelectSeq(ep_space, LAMBDA node : node \in Range(q_space))

\* The trombone check that never sets skip.
IsTromboneNever(source_pq_paths, pq_target_paths) == FALSE

\* The trombone check that compares the first path of each side only.
IsTromboneFirstPaths(source_pq_paths, pq_target_paths) ==
    /\ source_pq_paths # <<>>
    /\ pq_target_paths # <<>>
    /\ Range(Pop(source_pq_paths[1].path))
           \cap Range(Tail(pq_target_paths[1].path)) # {}

\* The trombone check of calculate_linkpaths and calculate_nodepaths sets
\* skip: a hop of a source-to-PQ path before its last node lies on a
\* PQ-to-target path after its first node.
IsTrombone(source_pq_paths, pq_target_paths) ==
    \E i \in 1..Len(source_pq_paths) : \E j \in 1..Len(pq_target_paths) :
        Range(Pop(source_pq_paths[i].path))
            \cap Range(Tail(pq_target_paths[j].path)) # {}

\* The repair path made by extending and flagging the stored source-to-PQ
\* path object in place of a new NodePath.
LinkBackupPathInPlace(topo, source_pq_path, pq_target_path, oid) ==
    [source_pq_path EXCEPT !.link_protecting = TRUE]

\* calculate_linkpaths: the NodePath built for one pair of segments.
LinkBackupPath(topo, source_pq_path, pq_target_path, oid) ==
    [NodePath(topo, Pop(source_pq_path.path) \o pq_target_path.path, oid)
        EXCEPT !.link_protecting = TRUE, !.owner = "rlfa_paths"]

\* calculate_nodepaths: source_pq_path + pq_target_path, then
\* set_link_protecting(True).
NodeBackupPath(source_pq_path, pq_target_path, oid) ==
    [NodePathAdd(source_pq_path, pq_target_path, oid)
        EXCEPT !.link_protecting = TRUE]

\* The emission double loop shared by both functions, over the k-th pair
\* of (source_pq_path, pq_target_path) in loop order.
RECURSIVE EmitPairs(_, _, _, _, _, _)
EmitPairs(topo, acc, sps, pts, k, node_variant) ==
    IF k > Len(sps) * Len(pts) THEN acc
    ELSE LET sp == sps[((k - 1) \div Len(pts)) + 1]
             pt == pts[((k - 1) % Len(pts)) + 1]
             bp == IF node_variant
                   THEN NodeBackupPath(sp, pt, 0 - (Len(acc.paths) + 1))
                   ELSE LinkBackupPath(topo, sp, pt, Len(acc.paths) + 1)
         IN EmitPairs(topo, NodePathsAppend(acc, bp), sps, pts, k + 1,
                      node_variant)

\* The loop body that keeps the tunnel found first and drops the others.
LinkPathsViaFirstOnly(topo, spf, trombone, acc, source, target, pq_node) ==
    LET first_hops == get_first_hop_nodes(get_paths_between(spf, source, target))
        source_pq_paths == get_paths_between(spf, source, pq_node)
        pq_target_paths == get_paths_between(spf, pq_node, target)
    IN IF pq_node \in Range(first_hops) THEN acc
       ELSE IF acc.paths # <<>> THEN acc
       ELSE IF ~trombone /\ IsTrombone(source_pq_paths, pq_target_paths)
       THEN acc
       ELSE EmitPairs(topo, acc, source_pq_paths, pq_target_paths, 1, FALSE)

\* RlfaPaths.calculate_linkpaths, the body of the loop over pq_nodes.
LinkPathsVia(topo, spf, trombone, acc, source, target, pq_node) ==
    LET first_hops == get_first_hop_nodes(get_paths_between(spf, source, target))
        source_pq_paths == get_paths_between(spf, source, pq_node)
        pq_target_paths == get_paths_between(spf, pq_node, target)
    IN IF pq_node \in Range(first_hops) THEN acc
       ELSE IF ~trombone /\ IsTrombone(source_pq_paths, pq_target_paths)
       THEN acc
       ELSE EmitPairs(topo, acc, source_pq_paths, pq_target_paths, 1, FALSE)

\* RlfaPaths.calculate_linkpaths
RECURSIVE calculate_linkpaths(_, _, _, _, _, _, _, _)
calculate_linkpaths(topo, spf, trombone, acc, pq_nodes, i, source, target) ==
    IF i > Len(pq_nodes) THEN acc
    ELSE calculate_linkpaths(topo, spf, trombone,
             LinkPathsVia(topo, spf, trombone, acc, source, target, pq_nodes[i]),
             pq_nodes, i + 1, source, target)

\* The overlap list of RlfaPaths.calculate_nodepaths is non-empty.
RlfaOverlap(first_hops, pq_target_paths) ==
    \E i \in 1..Len(first_hops) : OnSomePath(first_hops[i], pq_target_paths)

\* RlfaPaths.calculate_nodepaths, the body of the loop over pq_nodes.
NodePathsVia(topo, spf, trombone, acc, source, target, pq_node) ==
    LET first_hops == get_first_hop_nodes(get_paths_between(spf, source, target))
        source_pq_paths == get_paths_between(spf, source, pq_node)
        pq_target_paths == get_paths_between(spf, pq_node, target)
    IN IF pq_node \in Range(first_hops) THEN acc
       ELSE IF RlfaOverlap(first_hops, pq_target_paths) THEN acc
       ELSE IF ~trombone /\ IsTrombone(source_pq_paths, pq_target_paths)
       THEN acc
       ELSE EmitPairs(topo, acc, source_pq_paths, pq_target_paths, 1, TRUE)

\* RlfaPaths.calculate_nodepaths
RECURSIVE rlfa_calculate_nodepaths(_, _, _, _, _, _, _, _)
rlfa_calculate_nodepaths(topo, spf, trombone, acc, pq_nodes, i, source, target) ==
    IF i > Len(pq_nodes) THEN acc
    ELSE rlfa_calculate_nodepaths(topo, spf, trombone,
             NodePathsVia(topo, spf, trombone, acc, source, target, pq_nodes[i]),
             pq_nodes, i + 1, source, target)

\* RlfaPaths.calculate_rlfa_paths, the final loop: the node paths are
\* appended to the link paths.
RECURSIVE AppendAll(_, _, _)
AppendAll(acc, paths, i) ==
    IF i > Len(paths) THEN acc
    ELSE AppendAll(NodePathsAppend(acc, paths[i]), paths, i + 1)

\* RlfaPaths.calculate_rlfa_paths from the PQ-nodes on.  The record keeps
\* what the two calls returned next to the result.
RlfaFromPq(topo, spf, trombone, pq_nodes, source, target) ==
    LET link == calculate_linkpaths(topo, spf, trombone, NoPaths, pq_nodes, 1,
                                    source, target)
        node == rlfa_calculate_nodepaths(topo, spf, trombone, NoPaths,
                                         pq_nodes, 1, source, target)
        both == IF link.raised \/ node.raised
                THEN [paths |-> <<>>, raised |-> TRUE]
                ELSE AppendAll(link, node.paths, 1)
    IN [source |-> source, target |-> target, pq_nodes |-> pq_nodes,
        link |-> link, node |-> node,
        paths |-> both.paths, raised |-> both.raised]

\* The orders in which calculate_rlfa_paths can receive the space it asks
\* for: any order for the EP-space (a set turned into a list), the order of
\* gen_p_space otherwise; raised when computing the space raised.
RlfaPspace(topo, spf, ep, source, target) ==
    IF ep
    THEN LET eps == gen_ep_space(topo, spf, source, target)
         IN [lists |-> ListsOfSet(eps.nodes), raised |-> eps.raised]
    ELSE LET ps == gen_p_space(topo, spf, source, source, target)
         IN [lists |-> {ps.nodes}, raised |-> ps.raised]

\* What calculate_rlfa_paths leaves when gen_p_space raised.
RlfaRaised(source, target) ==
    [source |-> source, target |-> target, pq_nodes |-> <<>>,
     link |-> NoPaths, node |-> NoPaths, paths |-> <<>>, raised |-> TRUE]

\* ------------------------------------------------------------------------
\* State of the facade (pypaths/pypaths.py)
\* ------------------------------------------------------------------------

\* Two records stand for one and the same NodePath object.
SameObject(x, o) ==
    /\ x.owner = o.owner
    /\ x.oid = o.oid
    /\ x.nested = o.nested
    /\ x.path = o.path

\* A result map after an engine has handled the NodePath objects objs: a
\* stored object that is one of them shows the flags the engine has set on
\* it, every other stored object is as before.
StoredAfter(map, objs) ==
    [p \in DOMAIN map |->
        [i \in 1..Len(map[p]) |->
            IF \E o \in objs : SameObject(map[p][i], o)
            THEN CHOOSE o \in objs : SameObject(map[p][i], o)
            ELSE map[p][i]]]
VARIABLES topology, all_paths, spf_paths, lfa_paths, rlfa_paths,
          ep_space, trombone, rlfa_call, pc, idx, edge_paths, node_paths,
          last_append, document, json, reloaded, last_node

vars == <<topology, all_paths, spf_paths, lfa_paths, rlfa_paths,
          ep_space, trombone, rlfa_call, pc, idx, edge_paths, node_paths,
          last_append, document, json, reloaded, last_node>>

\* No calculate_rlfa_paths call has been made yet.
\* No document serialised yet, no add_node call made yet.
NoDocument == [nodes |-> <<>>, links |-> <<>>]

NoNode == [name |-> 0, oid |-> 0]

\* No append call made yet by the caller of EdgePaths / NodePaths.append.
NoAppend == [op |-> "none", raised |-> FALSE, path |-> <<>>]

NoCall ==
    [source |-> 0, target |-> 0, pq_nodes |-> <<>>,
     link |-> NoPaths, node |-> NoPaths, paths |-> <<>>, raised |-> FALSE]

Init ==
    /\ \E links \in LinkLists :
          document = [nodes |-> NodeList, links |-> links]
    /\ topology = from_dict(document)
    /\ json = NoDocument
    /\ reloaded = NewTopology
    /\ last_node = NoNode
    /\ all_paths = <<>>
    /\ spf_paths = <<>>
    /\ lfa_paths = <<>>
    /\ rlfa_paths = <<>>
    /\ ep_space = TRUE
    /\ trombone = FALSE
    /\ rlfa_call = NoCall
    /\ pc = "new"
    /\ idx = 0
    /\ edge_paths = <<>>
    /\ node_paths = <<>>
    /\ last_append = NoAppend

\* The position after the pair at idx: the next pair, or the next engine.
Advance(next_pc) ==
    IF idx < Len(PairSeq(topology))
    THEN idx' = idx + 1 /\ pc' = pc
    ELSE idx' = 1 /\ pc' = next_pc

\* AllPaths.__init__ up to delete_paths in calculate_paths.
NewAllPaths ==
    /\ UNCHANGED <<edge_paths, node_paths, last_append>>
    /\ UNCHANGED <<document, json, reloaded, last_node>>
    /\ pc = "new"
    /\ all_paths' = <<>>
    /\ pc' = "all_paths"
    /\ idx' = 1
    /\ UNCHANGED <<topology, spf_paths, lfa_paths, rlfa_paths, ep_space,
                   trombone, rlfa_call>>

\* One iteration of the double loop of AllPaths.calculate_paths.
AllPathsStep ==
    /\ UNCHANGED <<edge_paths, node_paths, last_append>>
    /\ UNCHANGED <<document, json, reloaded, last_node>>
    /\ pc = "all_paths"
    /\ LET p == PairSeq(topology)[idx]
           r == calculate_nodepaths(topology, NoPaths, <<>>, p[1], p[2])
       IN /\ all_paths' = (p :> r.all.paths) @@ all_paths
          /\ IF r.all.raised THEN pc' = "raised" /\ idx' = idx
                             ELSE Advance("spf_paths")
    /\ UNCHANGED <<topology, spf_paths, lfa_paths, rlfa_paths, ep_space,
                   trombone, rlfa_call>>

\* One iteration of the double loop of SpfPaths.calculate_paths.
SpfPathsStep ==
    /\ UNCHANGED <<edge_paths, node_paths, last_append>>
    /\ UNCHANGED <<document, json, reloaded, last_node>>
    /\ pc = "spf_paths"
    /\ LET p == PairSeq(topology)[idx]
           r == SpfCalculate(all_paths, p[1], p[2])
       IN /\ spf_paths' = (p :> r.paths) @@ spf_paths
          /\ all_paths' = StoredAfter(all_paths, Range(r.paths))
          /\ IF r.raised THEN pc' = "raised" /\ idx' = idx
                         ELSE Advance("lfa_paths")
    /\ UNCHANGED <<topology, lfa_paths, rlfa_paths, ep_space, trombone,
                   rlfa_call>>

\* One iteration of the double loop of LfaPaths.calculate_paths.
LfaPathsStep ==
    /\ UNCHANGED <<edge_paths, node_paths, last_append>>
    /\ UNCHANGED <<document, json, reloaded, last_node>>
    /\ pc = "lfa_paths"
    /\ LET p == PairSeq(topology)[idx]
           r == LfaCalculateNodepaths(topology, spf_paths, p[1], p[2])
       IN /\ lfa_paths' = (p :> r.paths) @@ lfa_paths
          /\ all_paths' = StoredAfter(all_paths, Range(r.paths))
          /\ spf_paths' = StoredAfter(spf_paths, Range(r.paths))
          /\ IF r.raised THEN pc' = "raised" /\ idx' = idx
                         ELSE Advance("new_rlfa")
    /\ UNCHANGED <<topology, rlfa_paths, ep_space, trombone, rlfa_call>>

\* RlfaPaths.__init__ up to self.paths = {} in calculate_paths.  The facade
\* passes the defaults; the constructor takes either value of both options.
NewRlfaPaths ==
    /\ UNCHANGED <<edge_paths, node_paths, last_append>>
    /\ UNCHANGED <<document, json, reloaded, last_node>>
    /\ pc = "new_rlfa"
    /\ \E ep \in BOOLEAN, tr \in BOOLEAN :
          /\ ep_space' = ep
          /\ trombone' = tr
    /\ rlfa_paths' = <<>>
    /\ pc' = "rlfa_paths"
    /\ idx' = 1
    /\ UNCHANGED <<topology, all_paths, spf_paths, lfa_paths, rlfa_call>>

\* One iteration of the double loop of RlfaPaths.calculate_paths: one call
\* of calculate_rlfa_paths.
RlfaPathsStep ==
    /\ UNCHANGED <<edge_paths, node_paths, last_append>>
    /\ UNCHANGED <<document, json, reloaded, last_node>>
    /\ pc = "rlfa_paths"
    /\ LET p == PairSeq(topology)[idx]
           q_space == gen_q_space(topology, spf_paths, p[1], p[2])
           space == RlfaPspace(topology, spf_paths, ep_space, p[1], p[2])
       IN IF space.raised
          THEN /\ rlfa_call' = RlfaRaised(p[1], p[2])
               /\ rlfa_paths' = rlfa_paths
               /\ pc' = "raised"
               /\ idx' = idx
               /\ UNCHANGED <<all_paths, spf_paths, lfa_paths>>
          ELSE \E p_list \in space.lists :
                  LET call == RlfaFromPq(topology, spf_paths, trombone,
                                         gen_pq_nodes(p_list, q_space),
                                         p[1], p[2])
                  IN /\ rlfa_call' = call
                     /\ all_paths' = StoredAfter(all_paths, Range(call.paths))
                     /\ spf_paths' = StoredAfter(spf_paths, Range(call.paths))
                     /\ lfa_paths' = StoredAfter(lfa_paths, Range(call.paths))
                     /\ IF call.raised
                        THEN /\ rlfa_paths' = rlfa_paths
                             /\ pc' = "raised"
                             /\ idx' = idx
                        ELSE /\ rlfa_paths' = (p :> call.paths) @@ rlfa_paths
                             /\ Advance("done")
    /\ UNCHANGED <<topology, ep_space, trombone>>

Next ==
    \/ NewAllPaths
    \/ AllPathsStep
    \/ SpfPathsStep
    \/ LfaPathsStep
    \/ NewRlfaPaths
    \/ RlfaPathsStep

Spec == Init /\ [][Next]_vars

\* ------------------------------------------------------------------------
\* EdgePaths.append and NodePaths.append on their own (pypaths/path.py):
\* a caller that builds an EdgePaths and a NodePaths, both empty at first,
\* out of the paths between nodes 1 and 2 of a topology.
\* ------------------------------------------------------------------------

\* The "links" arrays of this caller: a link from node 1 to node 2 and a
\* detour over every other node, w giving the weights of the links at node 1,
\* and last a second, parallel link from node 1 to node 3 of weight
\* w[NumNodes + 1].
FanLinks(w) ==
    <<<<1, 2, w[2]>>>>
    \o [k \in 1..(2 * (NumNodes - 2)) |->
           IF k % 2 = 1 THEN <<1, ((k + 1) \div 2) + 2, w[((k + 1) \div 2) + 2]>>
           ELSE <<2, (k \div 2) + 2, 1>>]
    \o <<<<1, 3, w[NumNodes + 1]>>>>

\* The node pairs the caller has AllPaths.calculate_nodepaths compute.
AppendPairs == {<<1, 2>>, <<2, 1>>, <<1, 3>>}

\* The NodePath objects the caller appends: those AllPaths computed from node
\* 1 to node 2, from node 2 to node 1 and from node 1 to node 3, every object
\* with its own oid.
NodePathPool(all) ==
    LET there == get_paths_between(all, 1, 2)
        back == get_paths_between(all, 2, 1)
        aside == get_paths_between(all, 1, 3)
    IN there
       \o [i \in 1..Len(back) |-> [back[i] EXCEPT !.oid = Len(there) + i]]
       \o [i \in 1..Len(aside) |->
              [aside[i] EXCEPT !.oid = Len(there) + Len(back) + i]]

\* The EdgePath objects the caller appends: the edge paths of the NodePaths
\* from node 1 to node 2.
RECURSIVE EdgePathPool(_, _, _)
EdgePathPool(topo, node_paths_12, i) ==
    IF i > Len(node_paths_12) THEN <<>>
    ELSE from_node_path(topo, node_paths_12[i].path)
         \o EdgePathPool(topo, node_paths_12, i + 1)

InitAppend ==
    /\ \E w \in [2..(NumNodes + 1) -> Weights] :
          document = [nodes |-> NodeList, links |-> FanLinks(w)]
    /\ topology = from_dict(document)
    /\ json = NoDocument
    /\ reloaded = NewTopology
    /\ last_node = NoNode
    /\ all_paths = [p \in AppendPairs |->
                       calculate_nodepaths(topology, NoPaths, <<>>,
                                           p[1], p[2]).all.paths]
    /\ spf_paths = <<>>
    /\ lfa_paths = <<>>
    /\ rlfa_paths = <<>>
    /\ ep_space = TRUE
    /\ trombone = FALSE
    /\ rlfa_call = NoCall
    /\ pc = "append"
    /\ idx = 0
    /\ edge_paths = <<>>
    /\ node_paths = <<>>
    /\ last_append = NoAppend

\* EdgePaths.append of one EdgePath object.
EdgePathsAppendStep ==
    /\ pc = "append"
    /\ Len(edge_paths) + Len(node_paths) < MaxAppends
    /\ LET pool == EdgePathPool(topology, get_paths_between(all_paths, 1, 2), 1)
       IN \E i \in 1..Len(pool) :
              edge_paths' = EdgePathsAppend(edge_paths, pool[i])
    /\ last_append' = [op |-> "edge", raised |-> FALSE, path |-> <<>>]
    /\ UNCHANGED <<topology, all_paths, spf_paths, lfa_paths, rlfa_paths,
                   ep_space, trombone, rlfa_call, pc, idx, node_paths,
                   document, json, reloaded, last_node>>

\* NodePaths.append of one NodePath object; when it raises the collection
\* is as before.
NodePathsAppendStep ==
    /\ pc = "append"
    /\ Len(edge_paths) + Len(node_paths) < MaxAppends
    /\ LET pool == NodePathPool(all_paths)
       IN \E i \in 1..Len(pool) :
              LET r == NodePathsAppend([paths |-> node_paths,
                                        raised |-> FALSE], pool[i])
              IN /\ node_paths' = r.paths
                 /\ last_append' = [op |-> "node", raised |-> r.raised,
                                    path |-> pool[i].path]
    /\ UNCHANGED <<topology, all_paths, spf_paths, lfa_paths, rlfa_paths,
                   ep_space, trombone, rlfa_call, pc, idx, edge_paths,
                   document, json, reloaded, last_node>>

NextAppend ==
    \/ EdgePathsAppendStep
    \/ NodePathsAppendStep

SpecAppend == InitAppend /\ [][NextAppend]_vars

\* ------------------------------------------------------------------------
\* The Topology operations on their own (pypaths/topology.py): a caller that
\* loads a document, may add one more node to the loaded topology, or
\* serialises the topology and loads the result again.
\* ------------------------------------------------------------------------

\* The link entries of the documents of this caller: any direction, weights
\* from 0, entries with no weight; the last node is on no "nodes" array.
LoadLinkOptions ==
    {<<u, v, w>> : u \in Node, v \in Node, w \in 0..MaxWeight}
    \cup {<<u, v>> : u \in Node, v \in Node}

LoadDocuments ==
    {[nodes |-> SubSeq(NodeList, 1, NumNodes - 1), links |-> l] :
        l \in UNION {[1..k -> {o \in LoadLinkOptions : o[1] # o[2]}] :
                     k \in 0..MaxLoadLinks}}

InitLoad ==
    /\ document \in LoadDocuments
    /\ topology = NewTopology
    /\ json = NoDocument
    /\ reloaded = NewTopology
    /\ last_node = NoNode
    /\ all_paths = <<>>
    /\ spf_paths = <<>>
    /\ lfa_paths = <<>>
    /\ rlfa_paths = <<>>
    /\ ep_space = TRUE
    /\ trombone = FALSE
    /\ rlfa_call = NoCall
    /\ pc = "load"
    /\ idx = 0
    /\ edge_paths = <<>>
    /\ node_paths = <<>>
    /\ last_append = NoAppend

\* Topology.from_dict(document)
FromDict ==
    /\ pc = "load"
    /\ topology' = from_dict(document)
    /\ pc' = IF topology'.raised = "none" THEN "loaded" ELSE "load_raised"
    /\ UNCHANGED <<all_paths, spf_paths, lfa_paths, rlfa_paths, ep_space,
                   trombone, rlfa_call, idx, edge_paths, node_paths,
                   last_append, document, json, reloaded, last_node>>

\* Topology.add_node(node) on the loaded topology: node is a Node object the
\* topology stores, or a new Node(name) of any name.
AddNode ==
    /\ pc = "loaded"
    /\ \E node \in {[name |-> n, oid |-> topology.oid[n]] :
                       n \in Range(topology.nodes)}
                   \cup {[name |-> n, oid |-> FreshOid(topology)] :
                            n \in Node} :
          /\ topology' = add_node(topology, node.name, node.oid)
          /\ last_node' = node
    /\ pc' = "added"
    /\ UNCHANGED <<all_paths, spf_paths, lfa_paths, rlfa_paths, ep_space,
                   trombone, rlfa_call, idx, edge_paths, node_paths,
                   last_append, document, json, reloaded>>

\* Topology.to_json(topology): json.dumps of Topology.to_dict, kept as the
\* dict that json.loads makes of it again.
ToJson ==
    /\ pc = "loaded"
    /\ json' = to_dict(topology, 1)
    /\ pc' = "dumped"
    /\ UNCHANGED <<topology, all_paths, spf_paths, lfa_paths, rlfa_paths,
                   ep_space, trombone, rlfa_call, idx, edge_paths,
                   node_paths, last_append, document, reloaded, last_node>>

\* Topology.from_json(json)
FromJson ==
    /\ pc = "dumped"
    /\ reloaded' = from_dict(json)
    /\ pc' = IF reloaded'.raised = "none" THEN "reloaded" ELSE "reload_raised"
    /\ UNCHANGED <<topology, all_paths, spf_paths, lfa_paths, rlfa_paths,
                   ep_space, trombone, rlfa_call, idx, edge_paths,
                   node_paths, last_append, document, json, last_node>>

NextLoad ==
    \/ FromDict
    \/ AddNode
    \/ ToJson
    \/ FromJson

SpecLoad == InitLoad /\ [][NextLoad]_vars

\* ------------------------------------------------------------------------
\* The engines up to LfaPaths on topologies that have links of weight 0, a
\* weight Edge.__init__ accepts and Settings.DEFAULT_WEIGHT names.
\* ------------------------------------------------------------------------

\* The unordered node pairs, in ascending order.
NodePairList ==
    SelectSeq([k \in 1..(NumNodes * NumNodes) |->
                  <<((k - 1) \div NumNodes) + 1, ((k - 1) % NumNodes) + 1>>],
              LAMBDA p : p[1] < p[2])

\* The "links" arrays with at most one link per node pair, of weight 0 or 1.
ZeroWeightLinkLists ==
    {SelectSeq([i \in 1..Len(NodePairList) |->
                   <<NodePairList[i][1], NodePairList[i][2], f[i]>>],
               LAMBDA l : l[3] >= 0) :
        f \in [1..Len(NodePairList) -> {-1, 0, 1}]}

InitZeroWeight ==
    /\ \E links \in ZeroWeightLinkLists :
          document = [nodes |-> NodeList, links |-> links]
    /\ topology = from_dict(document)
    /\ json = NoDocument
    /\ reloaded = NewTopology
    /\ last_node = NoNode
    /\ all_paths = <<>>
    /\ spf_paths = <<>>
    /\ lfa_paths = <<>>
    /\ rlfa_paths = <<>>
    /\ ep_space = TRUE
    /\ trombone = FALSE
    /\ rlfa_call = NoCall
    /\ pc = "new"
    /\ idx = 0
    /\ edge_paths = <<>>
    /\ node_paths = <<>>
    /\ last_append = NoAppend

NextZeroWeight ==
    \/ NewAllPaths
    \/ AllPathsStep
    \/ SpfPathsStep
    \/ LfaPathsStep

SpecZeroWeight == InitZeroWeight /\ [][NextZeroWeight]_vars

\* ------------------------------------------------------------------------
\* A caller that slices an EdgePaths (pypaths/path.py)
\* ------------------------------------------------------------------------
\* edge_paths is the list self.paths of the EdgePaths at hand: first of the
\* stored collection, and from the slice on of the collection under
\* construction, which is the very list the loop of __init__ iterates over.
\* idx counts the items that loop has taken; last_append.path keeps the list
\* as it was passed to __init__.

\* The loop of EdgePaths.__init__ is followed up to this length of the list.
MaxSliceLen == 6

\* The EdgePaths a caller has stored by appending the first k paths of pool.
RECURSIVE StoredEdgePaths(_, _)
StoredEdgePaths(pool, k) ==
    IF k = 0 THEN <<>>
    ELSE EdgePathsAppend(StoredEdgePaths(pool, k - 1), pool[k])

InitSlice ==
    /\ \E w \in [2..(NumNodes + 1) -> Weights] :
          document = [nodes |-> NodeList, links |-> FanLinks(w)]
    /\ topology = from_dict(document)
    /\ json = NoDocument
    /\ reloaded = NewTopology
    /\ last_node = NoNode
    /\ all_paths = [p \in AppendPairs |->
                       calculate_nodepaths(topology, NoPaths, <<>>,
                                           p[1], p[2]).all.paths]
    /\ spf_paths = <<>>
    /\ lfa_paths = <<>>
    /\ rlfa_paths = <<>>
    /\ ep_space = TRUE
    /\ trombone = FALSE
    /\ rlfa_call = NoCall
    /\ pc = "stored"
    /\ idx = 0
    /\ LET pool == EdgePathPool(topology, get_paths_between(all_paths, 1, 2), 1)
       IN \E k \in 1..Min(Len(pool), MaxAppends) :
              edge_paths = StoredEdgePaths(pool, k)
    /\ node_paths = <<>>
    /\ last_append = NoAppend

\* EdgePaths.__getitem__ with a slice, up to the first line of __init__:
\* self.paths is the list made by the slice expression.
GetItemSlice ==
    /\ pc = "stored"
    /\ \E start \in 0..Len(edge_paths) : \E stop \in start..Len(edge_paths) :
          LET paths == SubSeq(edge_paths, start + 1, stop)
          IN /\ edge_paths' = paths
             /\ last_append' = [op |-> "slice", raised |-> FALSE, path |-> paths]
    /\ pc' = "init"
    /\ idx' = 0
    /\ UNCHANGED <<topology, all_paths, spf_paths, lfa_paths, rlfa_paths,
                   ep_space, trombone, rlfa_call, node_paths>>
    /\ UNCHANGED <<document, json, reloaded, last_node>>

\* One iteration of "for path in paths: self.append(path)": the list
\* iterator yields the item at its index of the list as it is now.
InitLoopStep ==
    /\ pc = "init"
    /\ idx < Len(edge_paths)
    /\ Len(edge_paths) < MaxSliceLen
    /\ edge_paths' = EdgePathsAppend(edge_paths, edge_paths[idx + 1])
    /\ idx' = idx + 1
    /\ UNCHANGED <<topology, all_paths, spf_paths, lfa_paths, rlfa_paths,
                   ep_space, trombone, rlfa_call, pc, node_paths,
                   last_append>>
    /\ UNCHANGED <<document, json, reloaded, last_node>>

\* The list iterator is exhausted: __init__ returns.
InitLoopEnd ==
    /\ pc = "init"
    /\ idx >= Len(edge_paths)
    /\ pc' = "constructed"
    /\ UNCHANGED <<topology, all_paths, spf_paths, lfa_paths, rlfa_paths,
                   ep_space, trombone, rlfa_call, idx, edge_paths, node_paths,
                   last_append>>
    /\ UNCHANGED <<document, json, reloaded, last_node>>

NextSlice ==
    \/ GetItemSlice
    \/ InitLoopStep
    \/ InitLoopEnd

SpecSlice == InitSlice /\ [][NextSlice]_vars

\* ------------------------------------------------------------------------
\* The engines with the pairs shared between two workers
\* ------------------------------------------------------------------------
\* The body of each double loop, one pair per step, taken by two workers:
\* one takes the pairs in the order of the loop, the other in the reverse
\* order, and the steps of the two interleave in every way.  idx is the
\* position in the loop order of the pair computed last.

\* The weight of every link of the topologies the workers run on.
WorkerWeight == 1

\* The "links" arrays of these topologies.
WorkerLinkLists ==
    {s \in LinkLists : \A i \in 1..Len(s) : s[i][3] = WorkerWeight}

InitWorkers ==
    /\ \E links \in WorkerLinkLists :
          document = [nodes |-> NodeList, links |-> links]
    /\ topology = from_dict(document)
    /\ json = NoDocument
    /\ reloaded = NewTopology
    /\ last_node = NoNode
    /\ all_paths = <<>>
    /\ spf_paths = <<>>
    /\ lfa_paths = <<>>
    /\ rlfa_paths = <<>>
    /\ ep_space = TRUE
    /\ trombone = FALSE
    /\ rlfa_call = NoCall
    /\ pc = "new"
    /\ idx = 0
    /\ edge_paths = <<>>
    /\ node_paths = <<>>
    /\ last_append = NoAppend

\* The positions of the pairs that have no cell in the result map yet.
Pending(map) ==
    {k \in 1..Len(PairSeq(topology)) : PairSeq(topology)[k] \notin DOMAIN map}

\* The positions the two workers take next.
NextOfWorkers(map) ==
    {k \in Pending(map) :
        \/ \A j \in Pending(map) : k <= j
        \/ \A j \in Pending(map) : k >= j}

\* The engine is finished when the pair at k was the last one pending.
Finish(map, k, next_pc) ==
    /\ idx' = k
    /\ pc' = IF Pending(map) = {k} THEN next_pc ELSE pc

\* One worker computes one pair of AllPaths.
AllPathsWorker ==
    /\ UNCHANGED <<edge_paths, node_paths, last_append>>
    /\ UNCHANGED <<document, json, reloaded, last_node>>
    /\ pc = "all_paths"
    /\ \E k \in NextOfWorkers(all_paths) :
          LET p == PairSeq(topology)[k]
              r == calculate_nodepaths(topology, NoPaths, <<>>, p[1], p[2])
          IN /\ all_paths' = (p :> r.all.paths) @@ all_paths
             /\ IF r.all.raised THEN pc' = "raised" /\ idx' = k
                                ELSE Finish(all_paths, k, "spf_paths")
    /\ UNCHANGED <<topology, spf_paths, lfa_paths, rlfa_paths, ep_space,
                   trombone, rlfa_call>>

\* One worker computes one pair of SpfPaths.
SpfPathsWorker ==
    /\ UNCHANGED <<edge_paths, node_paths, last_append>>
    /\ UNCHANGED <<document, json, reloaded, last_node>>
    /\ pc = "spf_paths"
    /\ \E k \in NextOfWorkers(spf_paths) :
          LET p == PairSeq(topology)[k]
              r == SpfCalculate(all_paths, p[1], p[2])
          IN /\ spf_paths' = (p :> r.paths) @@ spf_paths
             /\ all_paths' = StoredAfter(all_paths, Range(r.paths))
             /\ IF r.raised THEN pc' = "raised" /\ idx' = k
                            ELSE Finish(spf_paths, k, "lfa_paths")
    /\ UNCHANGED <<topology, lfa_paths, rlfa_paths, ep_space, trombone,
                   rlfa_call>>

\* One worker computes one pair of LfaPaths.
LfaPathsWorker ==
    /\ UNCHANGED <<edge_paths, node_paths, last_append>>
    /\ UNCHANGED <<document, json, reloaded, last_node>>
    /\ pc = "lfa_paths"
    /\ \E k \in NextOfWorkers(lfa_paths) :
          LET p == PairSeq(topology)[k]
              r == LfaCalculateNodepaths(topology, spf_paths, p[1], p[2])
          IN /\ lfa_paths' = (p :> r.paths)
                                 @@ StoredAfter(lfa_paths, Range(r.paths))
             /\ all_paths' = StoredAfter(all_paths, Range(r.paths))
             /\ spf_paths' = StoredAfter(spf_paths, Range(r.paths))
             /\ IF r.raised THEN pc' = "raised" /\ idx' = k
                            ELSE Finish(lfa_paths, k, "new_rlfa")
    /\ UNCHANGED <<topology, rlfa_paths, ep_space, trombone, rlfa_call>>

\* One worker computes one pair of RlfaPaths.
RlfaPathsWorker ==
    /\ UNCHANGED <<edge_paths, node_paths, last_append>>
    /\ UNCHANGED <<document, json, reloaded, last_node>>
    /\ pc = "rlfa_paths"
    /\ \E k \in NextOfWorkers(rlfa_paths) :
          LET p == PairSeq(topology)[k]
              q_space == gen_q_space(topology, spf_paths, p[1], p[2])
              space == RlfaPspace(topology, spf_paths, ep_space, p[1], p[2])
          IN IF space.raised
             THEN /\ rlfa_call' = RlfaRaised(p[1], p[2])
                  /\ pc' = "raised"
                  /\ idx' = k
                  /\ UNCHANGED <<all_paths, spf_paths, lfa_paths, rlfa_paths>>
             ELSE \E p_list \in space.lists :
                     LET call == RlfaFromPq(topology, spf_paths, trombone,
                                            gen_pq_nodes(p_list, q_space),
                                            p[1], p[2])
                     IN /\ rlfa_call' = call
                        /\ all_paths' = StoredAfter(all_paths, Range(call.paths))
                        /\ spf_paths' = StoredAfter(spf_paths, Range(call.paths))
                        /\ lfa_paths' = StoredAfter(lfa_paths, Range(call.paths))
                        /\ IF call.raised
                           THEN /\ rlfa_paths' = rlfa_paths
                                /\ pc' = "raised"
                                /\ idx' = k
                           ELSE /\ rlfa_paths' = (p :> call.paths) @@ rlfa_paths
                                /\ Finish(rlfa_paths, k, "done")
    /\ UNCHANGED <<topology, ep_space, trombone>>

NextWorkers ==
    \/ NewAllPaths
    \/ AllPathsWorker
    \/ SpfPathsWorker
    \/ LfaPathsWorker
    \/ NewRlfaPaths
    \/ RlfaPathsWorker

SpecWorkers == InitWorkers /\ [][NextWorkers]_vars

\* The sequential double loop of AllPaths.calculate_paths from the pair at
\* k on: the result map it leaves.
RECURSIVE SequentialAllPaths(_, _)
SequentialAllPaths(k, acc) ==
    IF k > Len(PairSeq(topology)) THEN acc
    ELSE LET p == PairSeq(topology)[k]
             r == calculate_nodepaths(topology, NoPaths, <<>>, p[1], p[2])
         IN SequentialAllPaths(k + 1, (p :> r.all.paths) @@ acc)

\* The sequential double loop of SpfPaths.calculate_paths over the AllPaths
\* map all.
RECURSIVE SequentialSpfPaths(_, _, _)
SequentialSpfPaths(k, all, acc) ==
    IF k > Len(PairSeq(topology)) THEN acc
    ELSE LET p == PairSeq(topology)[k]
             r == SpfCalculate(all, p[1], p[2])
         IN SequentialSpfPaths(k + 1, StoredAfter(all, Range(r.paths)),
                               (p :> r.paths) @@ acc)

\* The sequential double loop of LfaPaths.calculate_paths over the SPF map
\* spf.
RECURSIVE SequentialLfaPaths(_, _, _)
SequentialLfaPaths(k, spf, acc) ==
    IF k > Len(PairSeq(topology)) THEN acc
    ELSE LET p == PairSeq(topology)[k]
             r == LfaCalculateNodepaths(topology, spf, p[1], p[2])
         IN SequentialLfaPaths(k + 1, StoredAfter(spf, Range(r.paths)),
                               (p :> r.paths) @@ acc)

\* The NodePaths sequences one call of RlfaPaths.calculate_nodepaths can
\* return for the pair p over the SPF map spf.
RlfaOutcomes(spf, p) ==
    LET q_space == gen_q_space(topology, spf, p[1], p[2])
        space == RlfaPspace(topology, spf, ep_space, p[1], p[2])
    IN IF space.raised THEN {}
       ELSE {c.paths : c \in {x \in {RlfaFromPq(topology, spf, trombone,
                                                gen_pq_nodes(p_list, q_space),
                                                p[1], p[2]) :
                                     p_list \in space.lists} : ~x.raised}}

\* ------------------------------------------------------------------------
\* Properties
\* ------------------------------------------------------------------------

\* The node sequences stored in a list of NodePaths.
NodeSeqs(paths) == {paths[i].path : i \in 1..Len(paths)}

\* The simple node paths of the topology that start at source and have k
\* nodes: built breadth first from the neighbour lists, independently of
\* the depth first search of the engine.
RECURSIVE SimplePathsOfLen(_, _, _)
SimplePathsOfLen(topo, source, k) ==
    IF k = 1 THEN {<<source>>}
    ELSE UNION {{Append(q, m) : m \in Range(get_neighbours(topo, q[Len(q)]))
                                        \ Range(q)} :
                q \in SimplePathsOfLen(topo, source, k - 1)}

\* All simple node paths from source to target.
SimplePaths(topo, source, target) ==
    UNION {{q \in SimplePathsOfLen(topo, source, k) : q[k] = target} :
           k \in 2..NumNodes}

\* AllPaths.calculate_paths is running, or has just returned.  all_paths is
\* not written after that.
AllPathsPhase == pc = "all_paths" \/ (pc = "spf_paths" /\ idx = 1)

\* C1: for every ordered pair (S, D), S # D, that AllPaths has computed, the
\* stored collection holds every simple node path from S to D (first node S,
\* last node D, consecutive nodes neighbours, no node repeated) exactly once
\* and nothing else; it is empty when D is unreachable from S.
C1_AllSimplePathsOnce ==
    AllPathsPhase =>
        \A p \in DOMAIN all_paths :
            /\ NodeSeqs(all_paths[p]) = SimplePaths(topology, p[1], p[2])
            /\ Cardinality(NodeSeqs(all_paths[p])) = Len(all_paths[p])

\* C1 witness: AllPaths has returned for a topology in which one pair has
\* several simple paths and another pair has none.
C1_Witness ==
    /\ pc = "spf_paths"
    /\ \E p \in DOMAIN all_paths :
          Cardinality(SimplePaths(topology, p[1], p[2])) >= 2
    /\ \E p \in DOMAIN all_paths :
          SimplePaths(topology, p[1], p[2]) = {} /\ all_paths[p] = <<>>

\* SpfPaths.calculate_paths is running, or has just returned.  spf_paths is
\* not written after that.
SpfPathsPhase == pc = "spf_paths" \/ (pc = "lfa_paths" /\ idx = 1)

\* The paths of a list whose weight no path of the list undercuts.
MinWeightPaths(paths) ==
    {x \in Range(paths) : \A y \in Range(paths) : x.weight <= y.weight}

\* C2: for every pair (S, D) that SpfPaths has computed, SPF(S, D) is
\* exactly the subset of AllPaths(S, D) whose weight equals the minimum
\* weight over AllPaths(S, D), each such path once: no heavier path, every
\* path tied at the minimum, and empty exactly when AllPaths(S, D) is empty.
C2_SpfIsMinWeightSubset ==
    SpfPathsPhase =>
        \A p \in DOMAIN spf_paths :
            /\ Range(spf_paths[p]) = MinWeightPaths(all_paths[p])
            /\ Cardinality(Range(spf_paths[p])) = Len(spf_paths[p])
            /\ (spf_paths[p] = <<>>) <=> (all_paths[p] = <<>>)

\* C2 witness: SpfPaths has returned with a pair that has equal cost best
\* paths, a pair whose heavier path was left out, and a pair without paths.
C2_Witness ==
    /\ pc = "lfa_paths"
    /\ \E p \in DOMAIN spf_paths : Len(spf_paths[p]) >= 2
    /\ \E p \in DOMAIN spf_paths :
          Len(spf_paths[p]) >= 1 /\ Len(all_paths[p]) > Len(spf_paths[p])
    /\ \E p \in DOMAIN spf_paths :
          all_paths[p] = <<>> /\ spf_paths[p] = <<>>

\* LfaPaths.calculate_paths is running, or has returned and RlfaPaths has
\* not started.  lfa_paths is not written after that.
LfaPathsPhase == pc = "lfa_paths" \/ pc = "new_rlfa"

\* The SPF pair cost: the weight of the best paths, 0 when there is none.
SpfCost(s, t) ==
    LET best == get_paths_between(spf_paths, s, t)
    IN IF best = <<>> THEN 0 ELSE best[1].weight

\* The first hop nodes of the SPF paths from s to t.
FirstHopSet(s, t) ==
    {x.path[2] : x \in Range(get_paths_between(spf_paths, s, t))}

\* The nodes on the SPF paths from s to t.
NodesOnSpf(s, t) ==
    UNION {Range(x.path) : x \in Range(get_paths_between(spf_paths, s, t))}

\* C3: every NodePath of LFA(S, D) flagged link-protecting has a second
\* node N with cost(N,D) < cost(N,S) + cost(S,D), and every NodePath flagged
\* downstream-protecting has a second node N with cost(N,D) < cost(S,D).
C3_LfaFlagsImplyInequalities ==
    LfaPathsPhase =>
        \A p \in DOMAIN lfa_paths : \A x \in Range(lfa_paths[p]) :
            /\ x.link_protecting =>
                  SpfCost(x.path[2], p[2])
                    < SpfCost(x.path[2], p[1]) + SpfCost(p[1], p[2])
            /\ x.down_protecting =>
                  SpfCost(x.path[2], p[2]) < SpfCost(p[1], p[2])

\* C3 witness: LfaPaths has returned with a path flagged link-protecting
\* and downstream-protecting, and a path flagged link-protecting only
\* because its neighbour is as far from the target as the source is.
C3_Witness ==
    /\ pc = "new_rlfa"
    /\ \E p \in DOMAIN lfa_paths : \E x \in Range(lfa_paths[p]) :
          x.link_protecting /\ x.down_protecting
    /\ \E p \in DOMAIN lfa_paths : \E x \in Range(lfa_paths[p]) :
          /\ x.link_protecting /\ ~x.down_protecting
          /\ SpfCost(x.path[2], p[2]) = SpfCost(p[1], p[2])

\* The primary next hop LfaPaths reads: the second node of the first SPF
\* path from s to t.
PrimaryNextHop(s, t) == get_paths_between(spf_paths, s, t)[1].path[2]

\* C4: a NodePath [S, N, ..., D] of LFA(S, D) is flagged node-protecting
\* only if no first hop node of any SPF(S, D) path lies on any SPF path from
\* N to D, and cost(N,D) < cost(N,nh) + cost(nh,D) for the primary next hop
\* nh; with such an overlap the path is never flagged node-protecting.
C4_NodeProtectingHasNoOverlap ==
    LfaPathsPhase =>
        \A p \in DOMAIN lfa_paths : \A x \in Range(lfa_paths[p]) :
            x.node_protecting =>
                /\ FirstHopSet(p[1], p[2]) \cap NodesOnSpf(x.path[2], p[2]) = {}
                /\ SpfCost(x.path[2], p[2])
                     < SpfCost(x.path[2], PrimaryNextHop(p[1], p[2]))
                       + SpfCost(PrimaryNextHop(p[1], p[2]), p[2])

\* C4 witness: LfaPaths has returned with a path flagged node-protecting,
\* and with a path that meets the node inequality but is not flagged
\* because a first hop lies on an SPF path of its neighbour.
C4_Witness ==
    /\ pc = "new_rlfa"
    /\ \E p \in DOMAIN lfa_paths : \E x \in Range(lfa_paths[p]) :
          x.node_protecting
    /\ \E p \in DOMAIN lfa_paths : \E x \in Range(lfa_paths[p]) :
          /\ ~x.node_protecting
          /\ FirstHopSet(p[1], p[2]) \cap NodesOnSpf(x.path[2], p[2]) # {}
          /\ SpfCost(x.path[2], p[2])
               < SpfCost(x.path[2], PrimaryNextHop(p[1], p[2]))
                 + SpfCost(PrimaryNextHop(p[1], p[2]), p[2])

\* C5: every path of LFA(S, D) is [S] ++ P where N = P[0] is a neighbour of
\* S, N # D, N is not the first hop of any SPF(S, D) path and P is an SPF
\* path from N to D; LFA(S, D) is empty when SPF(S, D) is empty.
C5_LfaPathShape ==
    LfaPathsPhase =>
        \A p \in DOMAIN lfa_paths :
            /\ \A x \in Range(lfa_paths[p]) :
                  /\ Len(x.path) >= 2
                  /\ x.path[1] = p[1]
                  /\ x.path[2] \in Range(get_neighbours(topology, p[1]))
                  /\ x.path[2] # p[2]
                  /\ x.path[2] \notin FirstHopSet(p[1], p[2])
                  /\ Tail(x.path)
                       \in NodeSeqs(get_paths_between(spf_paths, x.path[2], p[2]))
            /\ spf_paths[p] = <<>> => lfa_paths[p] = <<>>

\* C5 witness: LfaPaths has returned with an alternate for a pair that has
\* two first hops, one of which is another neighbour of the source.
C5_Witness ==
    /\ pc = "new_rlfa"
    /\ \E p \in DOMAIN lfa_paths :
          /\ lfa_paths[p] # <<>>
          /\ Cardinality(FirstHopSet(p[1], p[2]) \ {p[2]}) >= 1
          /\ Cardinality(FirstHopSet(p[1], p[2])) >= 2

\* The three criteria of LFA(S, D) for the neighbour N, from the SPF costs.
LinkCriterion(p, n) ==
    SpfCost(n, p[2]) < SpfCost(n, p[1]) + SpfCost(p[1], p[2])

DownCriterion(p, n) == SpfCost(n, p[2]) < SpfCost(p[1], p[2])

NodeCriterion(p, n) ==
    /\ SpfCost(n, p[2]) < SpfCost(n, PrimaryNextHop(p[1], p[2]))
                           + SpfCost(PrimaryNextHop(p[1], p[2]), p[2])
    /\ FirstHopSet(p[1], p[2]) \cap NodesOnSpf(n, p[2]) = {}

\* The number of criteria the neighbour N satisfies.
CriteriaMet(p, n) ==
    (IF LinkCriterion(p, n) THEN 1 ELSE 0)
    + (IF DownCriterion(p, n) THEN 1 ELSE 0)
    + (IF NodeCriterion(p, n) THEN 1 ELSE 0)

\* How many entries of a list of NodePaths have the node sequence seq.
Occurrences(paths, seq) ==
    Cardinality({i \in 1..Len(paths) : paths[i].path = seq})

\* The neighbours of S whose paths LFA(S, D) evaluates: not the target, not
\* a first hop, and none of the five costs read for them is 0.
LfaEvaluated(p) ==
    IF get_paths_between(spf_paths, p[1], p[2]) = <<>> THEN {}
    ELSE {n \in Range(get_neighbours(topology, p[1])) :
             /\ n # p[2]
             /\ n \notin FirstHopSet(p[1], p[2])
             /\ SpfCost(n, p[2]) # 0
             /\ SpfCost(n, p[1]) # 0
             /\ SpfCost(p[1], p[2]) # 0
             /\ SpfCost(n, PrimaryNextHop(p[1], p[2])) # 0
             /\ SpfCost(PrimaryNextHop(p[1], p[2]), p[2]) # 0}

\* C6 as stated: a node sequence of LFA(S, D) that satisfies k of the three
\* criteria occurs k times in LFA(S, D), one entry per satisfied criterion.
C6_OneEntryPerCriterion ==
    LfaPathsPhase =>
        \A p \in DOMAIN lfa_paths : \A x \in Range(lfa_paths[p]) :
            Occurrences(lfa_paths[p], x.path) = CriteriaMet(p, x.path[2])

\* C6 amended: each candidate path [S] ++ P of an evaluated neighbour that
\* satisfies at least one criterion is stored in LFA(S, D) exactly once, as
\* one entry that carries the flag of every criterion it satisfies and no
\* other flag; len() counts it once.
C6_OneEntryPerCandidate ==
    LfaPathsPhase =>
        \A p \in DOMAIN lfa_paths :
            /\ \A x \in Range(lfa_paths[p]) :
                  /\ Occurrences(lfa_paths[p], x.path) = 1
                  /\ CriteriaMet(p, x.path[2]) >= 1
                  /\ x.link_protecting <=> LinkCriterion(p, x.path[2])
                  /\ x.down_protecting <=> DownCriterion(p, x.path[2])
                  /\ x.node_protecting <=> NodeCriterion(p, x.path[2])
            /\ \A n \in LfaEvaluated(p) :
                  CriteriaMet(p, n) >= 1 =>
                      \A y \in Range(get_paths_between(spf_paths, n, p[2])) :
                          <<p[1]>> \o y.path \in NodeSeqs(lfa_paths[p])
            /\ Len(lfa_paths[p]) = Cardinality(NodeSeqs(lfa_paths[p]))

\* C6 witness: LfaPaths has returned with a path that satisfies all three
\* criteria and is stored once with its three flags, and with a path that
\* satisfies one criterion only.
C6_Witness ==
    /\ pc = "new_rlfa"
    /\ \E p \in DOMAIN lfa_paths : \E x \in Range(lfa_paths[p]) :
          /\ CriteriaMet(p, x.path[2]) = 3
          /\ x.link_protecting /\ x.down_protecting /\ x.node_protecting
          /\ Occurrences(lfa_paths[p], x.path) = 1
    /\ \E p \in DOMAIN lfa_paths : \E x \in Range(lfa_paths[p]) :
          CriteriaMet(p, x.path[2]) = 1

\* A call of calculate_rlfa_paths has been made; rlfa_call holds what it
\* computed for the pair (rlfa_call.source, rlfa_call.target).
RlfaCalled == rlfa_call.source # 0

\* The SPF paths of the two segments of a tunnel through q.
SourcePqPaths(q) == get_paths_between(spf_paths, rlfa_call.source, q)

PqTargetPaths(q) == get_paths_between(spf_paths, q, rlfa_call.target)

\* No node of an S-to-q SPF path before q lies on a q-to-D SPF path after q.
TromboneFree(q) ==
    \A x \in Range(SourcePqPaths(q)) : \A y \in Range(PqTargetPaths(q)) :
        Range(Pop(x.path)) \cap Range(Tail(y.path)) = {}

\* The PQ-nodes of the call that are no first hop of SPF(S, D) and, with
\* trombone forbidden, pass the trombone check.
LinkQualified ==
    {q \in Range(rlfa_call.pq_nodes) :
        /\ q \notin FirstHopSet(rlfa_call.source, rlfa_call.target)
        /\ trombone \/ TromboneFree(q)}

\* The combinations <<q, i, j>> of a PQ-node of Q with the i-th S-to-q and
\* the j-th q-to-D SPF path.
Combinations(Q) ==
    UNION {{<<q, i, j>> : i \in 1..Len(SourcePqPaths(q)),
                          j \in 1..Len(PqTargetPaths(q))} : q \in Q}

\* s_path[:-1] ++ q_path of a combination.
Joined(c) ==
    Pop(SourcePqPaths(c[1])[c[2]].path) \o PqTargetPaths(c[1])[c[3]].path

\* C7: for every PQ-node q of a call that is no first hop of SPF(S, D) and
\* (trombone forbidden) passes the trombone check, calculate_linkpaths emits
\* exactly one link-protecting NodePath equal to s_path[:-1] ++ q_path for
\* every pair of SPF paths (s_path, q_path), and nothing else: the entries
\* with a given node sequence are as many as the combinations that produce
\* it, whatever the cost of their tunnels.
C7_LinkPathPerCombination ==
    RlfaCalled =>
        /\ ~rlfa_call.link.raised
        /\ Len(rlfa_call.link.paths) = Cardinality(Combinations(LinkQualified))
        /\ \A c \in Combinations(LinkQualified) :
              Occurrences(rlfa_call.link.paths, Joined(c))
                = Cardinality({d \in Combinations(LinkQualified) :
                                  Joined(d) = Joined(c)})
        /\ \A x \in Range(rlfa_call.link.paths) :
              /\ x.link_protecting
              /\ ~x.nested
              /\ \E c \in Combinations(LinkQualified) : x.path = Joined(c)

\* C7 witness: a call whose link paths come from two PQ-nodes with tunnels
\* of different cost.
C7_Witness ==
    /\ RlfaCalled
    /\ Cardinality(LinkQualified) >= 2
    /\ \E q1 \in LinkQualified, q2 \in LinkQualified :
          /\ SpfCost(rlfa_call.source, q1) < SpfCost(rlfa_call.source, q2)
          /\ Combinations({q1}) # {}
          /\ Combinations({q2}) # {}
    /\ Len(rlfa_call.link.paths) >= 2

\* C8: with trombone forbidden, a PQ-node q is discarded whenever a node of
\* an SPF(S, q) path other than its last lies on an SPF(q, D) path after its
\* first: every emitted rLFA path, link or node variant, is the two
\* segments of a PQ-node that passes that check, and no node of its S-to-q
\* segment reappears in its q-to-D segment.
C8_NoTrombonePath ==
    (RlfaCalled /\ ~trombone) =>
        /\ \A x \in Range(rlfa_call.link.paths) :
              \E q \in Range(rlfa_call.pq_nodes) :
                  /\ TromboneFree(q)
                  /\ \E c \in Combinations({q}) :
                        /\ x.path = Joined(c)
                        /\ Range(Pop(SourcePqPaths(q)[c[2]].path))
                             \cap Range(Tail(PqTargetPaths(q)[c[3]].path)) = {}
        /\ \A x \in Range(rlfa_call.node.paths) :
              \E q \in Range(rlfa_call.pq_nodes) :
                  /\ TromboneFree(q)
                  /\ \E c \in Combinations({q}) :
                        /\ x.path = SourcePqPaths(q)[c[2]].path
                                     \o PqTargetPaths(q)[c[3]].path
                        /\ Range(Pop(SourcePqPaths(q)[c[2]].path))
                             \cap Range(Tail(PqTargetPaths(q)[c[3]].path)) = {}

\* C8 witness: a call with trombone forbidden in which one PQ-node that is
\* no first hop fails the trombone check and another one yields a path.
C8_Witness ==
    /\ RlfaCalled
    /\ ~trombone
    /\ \E q \in Range(rlfa_call.pq_nodes) :
          /\ q \notin FirstHopSet(rlfa_call.source, rlfa_call.target)
          /\ ~TromboneFree(q)
    /\ rlfa_call.link.paths # <<>>

\* The PQ-nodes of the call no SPF path of which to the target holds a
\* first hop of SPF(S, D), and that pass the trombone check when trombone
\* is forbidden.
NodeQualified ==
    {q \in LinkQualified :
        FirstHopSet(rlfa_call.source, rlfa_call.target)
            \cap NodesOnSpf(q, rlfa_call.target) = {}}

\* C9 as stated: calculate_nodepaths emits, for each PQ-node q whose
\* SPF(q, D) paths hold no first hop of SPF(S, D), one NodePath per pair
\* (s_path, q_path) that is the node sequence s_path[:-1] ++ q_path from S
\* to D and is marked node-protecting; the other PQ-nodes contribute none.
C9_NodePathPerCombination ==
    RlfaCalled =>
        /\ ~rlfa_call.node.raised
        /\ Len(rlfa_call.node.paths) = Cardinality(Combinations(NodeQualified))
        /\ \A c \in Combinations(NodeQualified) :
              \E x \in Range(rlfa_call.node.paths) :
                  /\ ~x.nested
                  /\ x.path = Joined(c)
                  /\ x.node_protecting

\* The weights of a sequence of weights never fall.
NonDecreasing(ws) == \A i \in 1..(Len(ws) - 1) : ws[i] <= ws[i + 1]

\* C10: after any sequence of append operations on an initially empty
\* EdgePaths or NodePaths, the stored sequence of path weights is
\* non-decreasing.
C10_WeightsNonDecreasing ==
    /\ NonDecreasing([i \in 1..Len(edge_paths) |-> EdgePathWeight(edge_paths[i])])
    /\ NonDecreasing([i \in 1..Len(node_paths) |-> NodePathWeight(node_paths[i])])

\* C10 witness: both collections hold two paths, of different weights.
C10_Witness ==
    /\ Len(edge_paths) = 2
    /\ EdgePathWeight(edge_paths[1]) < EdgePathWeight(edge_paths[2])
    /\ Len(node_paths) = 2
    /\ NodePathWeight(node_paths[1]) < NodePathWeight(node_paths[2])

\* The path appended by the last NodePaths.append call has other endpoints
\* than the paths the collection held before the call.
EndpointsDiffer(held, path) ==
    /\ held # <<>>
    /\ \/ path[1] # held[1].path[1]
       \/ path[Len(path)] # held[1].path[Len(held[1].path)]

\* What one NodePaths.append call of the caller does.
AppendOutcome ==
    (last_append'.op = "node") =>
        /\ last_append'.raised = EndpointsDiffer(node_paths, last_append'.path)
        /\ last_append'.raised => node_paths' = node_paths
        /\ ~last_append'.raised =>
               \E i \in 1..Len(node_paths') :
                   node_paths'[i].path = last_append'.path

\* All members of the NodePaths share the first and the last node.
SharedEndpoints ==
    \A i, j \in 1..Len(node_paths) :
        /\ node_paths[i].path[1] = node_paths[j].path[1]
        /\ node_paths[i].path[Len(node_paths[i].path)]
             = node_paths[j].path[Len(node_paths[j].path)]

\* C11: NodePaths.append of a path whose source or target differs from those
\* of a non-empty collection fails with an error and leaves the collection
\* unchanged; so after any sequence of appends all members of a NodePaths
\* share the same first node and the same last node.
C11_AppendValidatesEndpoints == [][AppendOutcome]_vars /\ []SharedEndpoints

\* C11 witness: an append of a path with the source of the held paths and
\* another target has raised, the collection holding two paths.
C11_Witness ==
    /\ last_append.op = "node"
    /\ last_append.raised
    /\ Len(node_paths) = 2
    /\ last_append.path[1] = node_paths[1].path[1]
    /\ last_append.path[Len(last_append.path)]
         # node_paths[1].path[Len(node_paths[1].path)]

\* The edges of hop h of a node path.
HopEdges(topo, path, h) == edges_toward_node(topo, path[h], path[h + 1])

\* Every choice of one edge per hop of a node path.
EdgeCombinations(topo, path) ==
    LET hops == 1..(Len(path) - 1)
        all  == UNION {Range(HopEdges(topo, path, h)) : h \in hops}
    IN {c \in [hops -> all] :
           \A h \in hops : c[h] \in Range(HopEdges(topo, path, h))}

\* The product of the per-hop edge counts, from hop h on.
RECURSIVE HopProduct(_, _, _)
HopProduct(topo, path, h) ==
    IF h >= Len(path) THEN 1
    ELSE Len(HopEdges(topo, path, h)) * HopProduct(topo, path, h + 1)

\* The property of C12 for one node path.
ExpandsToProduct(topo, path) ==
    LET eps == from_node_path(topo, path)
    IN /\ Range(eps) = EdgeCombinations(topo, path)
       /\ Len(eps) = Cardinality(EdgeCombinations(topo, path))
       /\ Len(eps) = HopProduct(topo, path, 1)
       /\ \A i \in 1..Len(eps) :
              /\ Len(eps[i]) = Len(path) - 1
              /\ \A h \in 1..Len(eps[i]) :
                     /\ eps[i][h].local = path[h]
                     /\ eps[i][h].remote = path[h + 1]
       /\ NonDecreasing([i \in 1..Len(eps) |-> EdgePathWeight(eps[i])])

\* C12: for a NodePath [n_0 .. n_k], k >= 1, along the links of a topology
\* that may hold parallel edges, EdgePaths.from_node_path returns exactly one
\* EdgePath for every combination of one edge per hop taken from
\* n_i.edges_toward_node(n_{i+1}), their number being the product of the
\* per-hop edge counts, each EdgePath contiguous from n_0 to n_k, the
\* collection in non-decreasing weight order.
C12_EdgePathPerCombination ==
    \A p \in DOMAIN all_paths : \A i \in 1..Len(all_paths[p]) :
        ExpandsToProduct(topology, all_paths[p][i].path)

\* C12 witness: a path of two hops whose first hop has two parallel edges,
\* the heavier one stored first, so that the expansion has two edge paths
\* that the depth first search meets in falling weight order.
C12_Witness ==
    \E p \in DOMAIN all_paths : \E i \in 1..Len(all_paths[p]) :
        LET path == all_paths[p][i].path
        IN /\ Len(path) = 3
           /\ Len(HopEdges(topology, path, 1)) = 2
           /\ HopEdges(topology, path, 1)[1].weight
                > HopEdges(topology, path, 1)[2].weight
           /\ Len(from_node_path(topology, path)) = 2
           /\ Len(edge_paths) = 2

\* C13: after Topology.from_dict on any accepted input (links supplied in
\* one direction, in both directions, or as parallel links), for every stored
\* edge u->v there is a stored edge v->u with equal weight.
C13_EveryEdgeHasTwin ==
    pc = "loaded" =>
        \A u \in Node, v \in Node :
            \A i \in 1..Len(topology.edges[u][v]) :
                \E j \in 1..Len(topology.edges[v][u]) :
                    topology.edges[v][u][j].weight
                        = topology.edges[u][v][i].weight

\* The number of stored edges from u to v that have weight w.
EdgeCount(topo, u, v, w) ==
    Cardinality({i \in 1..Len(topo.edges[u][v]) : topo.edges[u][v][i].weight = w})

\* The names of the node entries of a serialised document.
DocumentNames(doc) ==
    {IF "id" \in DOMAIN doc.nodes[i] THEN doc.nodes[i].id ELSE doc.nodes[i].name :
        i \in 1..Len(doc.nodes)}

\* C14: for every topology t produced by from_dict/from_json,
\* Topology.from_json(Topology.to_json(t)) succeeds and yields a topology with
\* the same node names and the same multiset of links with equal weight, and
\* the serialised document holds no node and no link that is absent from t.
C14_JsonRoundTrip ==
    pc \in {"reloaded", "reload_raised"} =>
        /\ reloaded.raised = "none"
        /\ Range(reloaded.nodes) = Range(topology.nodes)
        /\ \A u \in Node, v \in Node, w \in 0..MaxWeight :
               EdgeCount(reloaded, u, v, w) = EdgeCount(topology, u, v, w)
        /\ DocumentNames(json) \subseteq Range(topology.nodes)
        /\ \A i \in 1..Len(json.links) :
               Len(topology.edges[json.links[i][1]][json.links[i][2]]) > 0

\* A stored NodePath visits no node twice.
NoRepeatedNode(p) ==
    /\ ~p.nested
    /\ Cardinality(Range(p.path)) = Len(p.path)

\* Every NodePath of a result map visits no node twice.
AllSimple(paths) ==
    \A p \in DOMAIN paths : \A i \in 1..Len(paths[p]) :
        NoRepeatedNode(paths[p][i])

C16_PathCostOrError ==
    \A p \in DOMAIN spf_paths :
        IF spf_paths[p] # <<>>
        THEN /\ ~PathCostRaises(spf_paths, p[1], p[2])
             /\ \A i \in 1..Len(spf_paths[p]) :
                    get_path_cost_between(spf_paths, p[1], p[2])
                        = NodePathWeight(spf_paths[p][i])
        ELSE PathCostRaises(spf_paths, p[1], p[2])

\* The position of the first path of a list of NodePaths whose index-1 node
\* is n.
FirstOccurrence(paths, n) ==
    CHOOSE i \in 1..Len(paths) :
        /\ paths[i].path[2] = n
        /\ \A j \in 1..(i - 1) : paths[j].path[2] # n

\* C17: NodePaths.get_first_hop_nodes returns each distinct index-1 node of
\* the lowest-weight paths exactly once, in order of first occurrence; when
\* several ECMP paths share the same first hop that node appears once.
C17_FirstHopsDistinctInOrder ==
    \A p \in DOMAIN spf_paths :
        LET fh == get_first_hop_nodes(spf_paths[p])
        IN /\ Range(fh) = {spf_paths[p][i].path[2] : i \in 1..Len(spf_paths[p])}
           /\ \A i, j \in 1..Len(fh) : i < j =>
                  /\ fh[i] # fh[j]
                  /\ FirstOccurrence(spf_paths[p], fh[i])
                       < FirstOccurrence(spf_paths[p], fh[j])

\* C18: Topology.add_node called with a node whose name is already present in
\* the topology, the stored Node object or a distinct Node object of the same
\* name, leaves the topology unchanged: the stored node, its neighbours and
\* its edges are kept.
C18_AddExistingNameKeepsTopology ==
    [][(pc = "loaded" /\ pc' = "added"
            /\ last_node'.name \in Range(topology.nodes))
        => topology' = topology]_vars

\* The names on the "nodes" array of a document.
KnownNames(doc) == {doc.nodes[i].id : i \in 1..Len(doc.nodes)}

\* A link entry names only nodes of the "nodes" array.
IsKnownLink(doc, link) ==
    /\ link[1] \in KnownNames(doc)
    /\ link[2] \in KnownNames(doc)

\* The document without the link entries that name an unknown node.
KnownLinksOnly(doc) ==
    [doc EXCEPT !.links = SelectSeq(doc.links, LAMBDA l : IsKnownLink(doc, l))]

\* C19: Topology.from_dict given a link whose source or target is not in the
\* node list skips that link and still returns a topology, which holds all
\* the nodes and every other link, as if the link had not been in the document.
C19_UnknownNodeLinkSkipped ==
    (/\ pc \in {"loaded", "load_raised"}
     /\ \E i \in 1..Len(document.links) : ~IsKnownLink(document, document.links[i]))
        => /\ pc = "loaded"
           /\ Range(topology.nodes) = KnownNames(document)
           /\ topology = from_dict(KnownLinksOnly(document))

\* Settings.DEFAULT_WEIGHT
DEFAULT_WEIGHT == 0

\* The stored edge that the i-th link entry of a document made.
LoadedEdge(topo, i) == topo.edges[document.links[i][1]][document.links[i][2]]

\* C20: a link entry that has no weight key is loaded by Topology.from_dict
\* without an error, as an edge of weight 0 from its source to its target.
C20_MissingWeightLoadsAsZero ==
    (/\ pc \in {"loaded", "load_raised"}
     /\ \A i \in 1..Len(document.links) : IsKnownLink(document, document.links[i])
     /\ \E i \in 1..Len(document.links) : Len(document.links[i]) = 2)
        => /\ pc = "loaded"
           /\ \A i \in 1..Len(document.links) :
                  Len(document.links[i]) = 2 =>
                      \E j \in 1..Len(LoadedEdge(topology, i)) :
                          LoadedEdge(topology, i)[j].weight = DEFAULT_WEIGHT

\* Node x has no links.
Isolated(x) ==
    /\ get_neighbours(topology, x) = <<>>
    /\ \A y \in Node : topology.edges[x][y] = <<>> /\ topology.edges[y][x] = <<>>

\* C21: for a node X that has no links, rLFA(Y, X) and rLFA(X, Y) are empty
\* for every other node Y, under both ep_space settings, and the
\* calculate_rlfa_paths call of such a pair raises no error.
C21_IsolatedNodeHasNoRlfa ==
    /\ \A p \in DOMAIN rlfa_paths :
           (Isolated(p[1]) \/ Isolated(p[2])) => rlfa_paths[p] = <<>>
    /\ (rlfa_call.source \in Node
            /\ (Isolated(rlfa_call.source) \/ Isolated(rlfa_call.target)))
           => /\ ~rlfa_call.raised
              /\ rlfa_call.paths = <<>>

\* Without the EP-space, rLFA has been computed from an isolated node toward
\* a node that has links, and toward an isolated node whose Q-space is not
\* empty.
C21_Witness ==
    /\ ~ep_space
    /\ \E p \in DOMAIN rlfa_paths :
           /\ Isolated(p[1])
           /\ ~Isolated(p[2])
           /\ rlfa_paths[p] = <<>>
    /\ \E p \in DOMAIN rlfa_paths :
           /\ Isolated(p[2])
           /\ gen_q_space(topology, spf_paths, p[1], p[2]) # <<>>

\* The SPF engine has stored every pair.
SpfComplete == pc \in {"lfa_paths", "new_rlfa", "rlfa_paths", "done"}

\* The roots gen_p_space is called with for the pair (s, d): s itself for
\* the P-space, the neighbours of s other than d for the EP-space.
PspaceRoots(s, d) ==
    {s} \cup {n \in Range(get_neighbours(topology, s)) : n # d}

\* The weight of the lowest-weight link from r to node fh.
LinkWeight(r, fh) ==
    MinSeq([i \in 1..Len(edges_toward_node(topology, r, fh)) |->
               edges_toward_node(topology, r, fh)[i].weight])

\* The weight of the lowest-weight first-hop link of r on its SPF paths to d.
FirstHopLinkWeight(r, d) ==
    LET fhs == get_first_hop_nodes(get_paths_between(spf_paths, r, d))
    IN MinSeq([i \in 1..Len(fhs) |-> LinkWeight(r, fhs[i])])

\* The candidates that reach the cost test of gen_p_space(r, s, d).
CostTested(r, s, d) ==
    {p \in Range(PspaceCandidates(topology, spf_paths, r, s, d)) :
        PspaceTested(spf_paths, s, d, p)}

\* C22: gen_p_space(root R, source S, target D) admits a candidate node P on
\* the test cost(R, P) < w + min over the ECMP first hops fh of SPF(R, D) of
\* cost(fh, P), where w is the weight of the lowest-weight first-hop link of
\* R on its SPF paths to D, not the cost of the whole path from R to D.
C22_PspaceFirstHopLinkCost ==
    SpfComplete =>
        \A s \in Node : \A d \in Node \ {s} : \A r \in PspaceRoots(s, d) :
            LET ps == gen_p_space(topology, spf_paths, r, s, d)
                fhs == get_first_hop_nodes(get_paths_between(spf_paths, r, d))
            IN (get_paths_between(spf_paths, r, d) # <<>> /\ ~ps.raised) =>
                   \A p \in CostTested(r, s, d) :
                       p \in Range(ps.nodes)
                           <=> get_path_cost_between(spf_paths, r, p)
                                 < FirstHopLinkWeight(r, d)
                                   + MinSeq(FhPnodeCosts(spf_paths, fhs, p))

\* The weight of a node path of the topology over its lowest-weight links.
RECURSIVE WalkWeight(_)
WalkWeight(q) ==
    IF Len(q) < 2 THEN 0
    ELSE LinkWeight(q[1], q[2]) + WalkWeight(Tail(q))

\* The cost of the pair (a, b) read off the topology: the weight of a
\* lightest simple path from a to b, and 0, the value the engines read for
\* such a pair, when b cannot be reached from a.
Cost(a, b) ==
    LET ws == {WalkWeight(q) : q \in SimplePaths(topology, a, b)}
    IN IF ws = {} THEN 0 ELSE CHOOSE w \in ws : \A v \in ws : w <= v

HasSpfPath(a, b) == get_paths_between(spf_paths, a, b) # <<>>

\* The five pairs whose costs the LFA engine reads for the neighbour n of s
\* toward d all have an SPF path.
FivePairsHavePaths(s, d, n) ==
    /\ HasSpfPath(n, d)
    /\ HasSpfPath(n, s)
    /\ HasSpfPath(s, d)
    /\ HasSpfPath(n, PrimaryNextHop(s, d))
    /\ HasSpfPath(PrimaryNextHop(s, d), d)

\* One of the three inequalities holds for the neighbour n of s toward d,
\* the third with no first hop of s on a best path from n to d.
SomeCriterionMet(s, d, n) ==
    \/ SpfCost(n, d) < SpfCost(n, s) + SpfCost(s, d)
    \/ SpfCost(n, d) < SpfCost(s, d)
    \/ /\ SpfCost(n, d) < SpfCost(n, PrimaryNextHop(s, d))
                            + SpfCost(PrimaryNextHop(s, d), d)
       /\ FirstHopSet(s, d) \cap NodesOnSpf(n, d) = {}

\* The neighbours of s the LFA engine takes to the cost step toward d.
CostStepNeighbours(s, d) ==
    {n \in Range(get_neighbours(topology, s)) :
        n # d /\ n \notin FirstHopSet(s, d)}

\* The paths of LFA(s, d) through the neighbour n.
LfaVia(s, d, n) ==
    {x \in Range(lfa_paths[<<s, d>>]) : Len(x.path) >= 2 /\ x.path[2] = n}

\* C24: in the LFA engine a neighbour N of S that is neither D nor a primary
\* first hop is skipped at the cost step exactly when one of the pairs
\* (N,D), (N,S), (S,D), (N,nh), (nh,D) has no SPF path; when all five have
\* one the inequalities are evaluated whatever the costs are, cost 0
\* included, so a neighbour that meets one of them has its paths in LFA(S, D).
C24_SkippedOnlyWithoutPath ==
    LfaPathsPhase =>
        \A p \in DOMAIN lfa_paths :
            HasSpfPath(p[1], p[2]) =>
                \A n \in CostStepNeighbours(p[1], p[2]) :
                    IF FivePairsHavePaths(p[1], p[2], n)
                    THEN SomeCriterionMet(p[1], p[2], n) =>
                             {x.path : x \in LfaVia(p[1], p[2], n)}
                                 = {<<p[1]>> \o y.path : y \in
                                       Range(get_paths_between(spf_paths, n, p[2]))}
                    ELSE LfaVia(p[1], p[2], n) = {}

\* C25: EdgePaths.append of a path whose weight equals the weight of paths
\* already stored places the new path after all stored paths of that weight:
\* the collection after the call is the collection before it with the new
\* path inserted at a position that no path of equal weight follows.
C25_TiesInInsertionOrder ==
    [][(last_append'.op = "edge" /\ Len(edge_paths') = Len(edge_paths) + 1)
        => \E k \in 1..Len(edge_paths') :
               /\ edge_paths' = InsertAt(edge_paths, k, edge_paths'[k])
               /\ \A j \in (k + 1)..Len(edge_paths') :
                      EdgePathWeight(edge_paths'[j])
                          > EdgePathWeight(edge_paths'[k])]_vars

\* The values of current_path with which the recursive invocations of
\* AllPaths.calculate_nodepaths(source, target) are entered: the search
\* descends along every simple path from source that avoids target.
RecursiveEntries(source, target) ==
    UNION {{q \in SimplePathsOfLen(topology, source, k) : target \notin Range(q)} :
           k \in 2..NumNodes}

\* current_path as the invocation entered with it leaves it.
PathAtReturn(entry, source, target) ==
    calculate_nodepaths(topology, NoPaths, entry, source, target).cur

\* AllPaths.calculate_paths is about to call calculate_nodepaths for the
\* pair at idx.
AllPathsCalling == pc = "all_paths" /\ idx <= Len(PairSeq(topology))

\* C26: for every invocation of AllPaths.calculate_nodepaths, the
\* top-level call and every recursive call, current_path holds at the return
\* the node sequence it held when the invocation was entered.
C26_CurrentPathAsAtEntry ==
    AllPathsCalling =>
        LET p == PairSeq(topology)[idx]
        IN \A entry \in {<<>>} \cup RecursiveEntries(p[1], p[2]) :
               PathAtReturn(entry, p[1], p[2]) = entry

\* A NodePath carries a protection flag.
HasFlag(x) == x.link_protecting \/ x.down_protecting \/ x.node_protecting

\* The NodePath objects stored in a result map.
StoredObjects(map) == UNION {Range(map[p]) : p \in DOMAIN map}

\* C27: the calculate_paths of SpfPaths, LfaPaths and RlfaPaths leave the
\* topology and every result map computed before them as they found it: a
\* step of the SPF engine changes neither the topology nor the AllPaths map,
\* a step of the LFA engine changes neither of these nor the SPF map, a step
\* of the rLFA engine changes none of the three nor the LFA map, and no
\* NodePath stored in the AllPaths or SPF map ever has a protection flag.
C27_EnginesLeaveEarlierResults ==
    /\ [][/\ (pc \in {"spf_paths", "lfa_paths", "new_rlfa", "rlfa_paths"})
                => (topology' = topology /\ all_paths' = all_paths)
          /\ (pc \in {"lfa_paths", "new_rlfa", "rlfa_paths"})
                => (spf_paths' = spf_paths)
          /\ (pc \in {"new_rlfa", "rlfa_paths"})
                => (lfa_paths' = lfa_paths)]_vars
    /\ [](\A x \in StoredObjects(all_paths) \cup StoredObjects(spf_paths) :
             ~HasFlag(x))

\* All engines have run; LFA holds a flagged path one hop longer than an SPF
\* path of the neighbour it goes through, and rLFA holds a flagged path.
C27_Witness ==
    /\ pc = "done"
    /\ \E x \in StoredObjects(lfa_paths) : \E y \in StoredObjects(spf_paths) :
           HasFlag(x) /\ x.path = <<x.path[1]>> \o y.path
    /\ \E x \in StoredObjects(rlfa_paths) : HasFlag(x)

ConnectedTopology ==
    \A s \in Node : \A d \in Node \ {s} : SimplePaths(topology, s, d) # {}

\* C29: on a connected topology (its weights are symmetric and positive),
\* RlfaPaths constructed with the defaults of the facade, ep_space=True and
\* trombone=False, raises in none of its calculate_rlfa_paths calls, the
\* P-space whose only first hop is itself a candidate and the call that
\* appends node-protecting repair paths included.
C29_DefaultRlfaCompletes ==
    (rlfa_call.raised /\ ep_space /\ ~trombone) => ~ConnectedTopology

\* The weights of the paths of an EdgePaths list do not decrease.
WeightOrdered(paths) ==
    \A i \in 1..(Len(paths) - 1) :
        EdgePathWeight(paths[i]) <= EdgePathWeight(paths[i + 1])

\* The list b holds exactly the items of the list a, each as often as a.
SameItems(a, b) ==
    /\ Len(a) = Len(b)
    /\ \E f \in [1..Len(a) -> 1..Len(b)] :
           /\ \A i \in 1..Len(a) : \A j \in 1..Len(a) : f[i] = f[j] => i = j
           /\ \A i \in 1..Len(a) : b[f[i]] = a[i]

\* C30: EdgePaths(paths=L) with a non-empty list L, as a slice of an
\* EdgePaths constructs it, terminates: the loop of __init__ takes one item
\* per path of L and no more, and once it has taken them the collection
\* holds exactly the paths of L, each once, in non-decreasing weight order.
C30_ConstructedFromList ==
    (pc \in {"init", "constructed"} /\ last_append.path # <<>>) =>
        /\ idx <= Len(last_append.path)
        /\ (idx = Len(last_append.path) \/ pc = "constructed") =>
               /\ SameItems(last_append.path, edge_paths)
               /\ WeightOrdered(edge_paths)

====
